---- MODULE Spec2Model ----
(***************************************************************************)
(* A model of the DEF parser of ldparser: the tokenizer and the record     *)
(* formatters of src/src/_def/transformer/specific.py, and the file scan,  *)
(* the header extraction and the final assembly of src/parse_def.py.       *)
(*                                                                         *)
(* Text is modelled as a sequence of one-character strings, so that        *)
(* strip, split, startswith, int and the regular expressions are computed  *)
(* character by character as Python computes them.                         *)
(***************************************************************************)
EXTENDS Integers, Sequences, FiniteSets, TLC

VARIABLES
    \* ---- final assembly of parse_def.py (__main__) ----
    nets,           \* def_content['nets']: the net records handed to assembly
    net2id,         \* net name -> enumeration index
    id2net_info,    \* enumeration index -> {net_name, connections}
    current_keys,   \* the key list the prune loop iterates and mutates
    seen,           \* the prune loop's set of visited keys
    key_idx,        \* position of the list iterator of "for key in current_keys"
    net_i,          \* position of "for i, net in enumerate(def_content['nets'])"
    main_pc,        \* where the assembly is
    \* ---- DefParser of parse_def.py ----
    units_stmt,     \* the UNITS statement of the file, as the pieces it is written with
    hdr_pc,         \* where the header extraction is
    def_file,       \* the DEF file, as the statements and blocks it is made of
    used_prefix,    \* self.used_prefix
    file_pos,       \* the number of lines read from f
    block_collector,\* self.block_collector: prefix -> what the block parser returned
    used_block_collector, \* self.used_block_collector
    header_info,    \* self.header_info
    section_k,      \* the number of raw sections the running transform has done
    seperated_head_line, \* the tokens of the section being transformed
    component_list, \* component_list of parse
    net_list,       \* net_list of parse
    parse_result,   \* what DefParser.parse returned
    parse_pc,       \* where DefParser.parse is
    \* ---- CommonLineSeperator.seperate of specific.py ----
    sep_line,       \* line: the line being separated
    sep_i,          \* i: the scan position (counted from 0, as in the code)
    tokens,         \* the tokens emitted so far
    token_starts,   \* for each emitted token, the value of i when its rule began
    sep_pc,         \* where seperate is
    \* ---- the record formatters of specific.py ----
    seperate_components, \* the token sequence handed to format
    formatter,      \* the formatter that was called
    format_result,  \* what the call did: the record returned, or the exception
    fmt_pc,         \* where the call is
    \* ---- the block transformers of specific.py ----
    list_of_raw_sections, \* the raw sections handed to transform
    block_transformer,    \* the transformer instance that was called
    block_k,        \* the number of raw sections transformed so far
    head_tokens,    \* seperated_head_line of the section being transformed
    result_list,    \* the list transform is building
    block_result,   \* what the call did: the list returned, or the exception
    block_pc,       \* where transform is
    \* ---- the component assembly of parse_def.py (__main__) ----
    components,     \* def_content['components']
    instance2id,    \* instance name -> enumeration index
    id2instance_info, \* enumeration index -> {instance_name, cell_name, placementInfo?}
    ins_i,          \* position of "for i, comp in enumerate(def_content['components'])"
    ins_pc          \* where the component assembly is

asmVars == <<nets, net2id, id2net_info, current_keys, seen, key_idx, net_i, main_pc>>

hdrVars == <<units_stmt, hdr_pc>>

parseVars == <<def_file, used_prefix, file_pos, block_collector, used_block_collector,
               header_info, section_k, seperated_head_line, component_list, net_list,
               parse_result, parse_pc>>

sepVars == <<sep_line, sep_i, tokens, token_starts, sep_pc>>

fmtVars == <<seperate_components, formatter, format_result, fmt_pc>>

blockVars == <<list_of_raw_sections, block_transformer, block_k, head_tokens, result_list,
               block_result, block_pc>>

insVars == <<components, instance2id, id2instance_info, ins_i, ins_pc>>

vars == <<asmVars, hdrVars, parseVars, sepVars, fmtVars, blockVars, insVars>>

\* The variables each part of the program leaves alone.
notAsm == <<hdrVars, parseVars, sepVars, fmtVars, blockVars, insVars>>
notHdr == <<asmVars, sepVars, fmtVars, blockVars, insVars, def_file, used_prefix, file_pos,
            used_block_collector, section_k, seperated_head_line, component_list,
            net_list, parse_result, parse_pc>>
notSep == <<asmVars, hdrVars, parseVars, fmtVars, blockVars, insVars>>
notFmt == <<asmVars, hdrVars, parseVars, sepVars, blockVars, insVars>>
notBlock == <<asmVars, hdrVars, parseVars, sepVars, fmtVars, insVars>>
notIns == <<asmVars, hdrVars, parseVars, sepVars, fmtVars, blockVars>>
notParse == <<asmVars, hdrVars, sepVars, fmtVars, blockVars, insVars>>

-----------------------------------------------------------------------------
(* Bounds of the model and the input alphabets.                            *)

MaxNets == 3

NetNames == {"n1", "n2"}

PinMarker == "PIN"

cPinX == [ins_name |-> "PIN", pin_name |-> "X"]
cU1A  == [ins_name |-> "U1",  pin_name |-> "A"]
cU2B  == [ins_name |-> "U2",  pin_name |-> "B"]

\* The connection lists a net record of the input may carry.
ConnLists ==
    { <<>>, <<cU1A>>, <<cPinX>>, <<cPinX, cU1A>>, <<cU1A, cU2B>>,
      <<cU1A, cPinX, cU2B>> }

NetRecords == [net_name : NetNames, connections : ConnLists]

SeqsUpTo(S, n) == UNION { [1..k -> S] : k \in 0..n }

-----------------------------------------------------------------------------
(* Generic helpers for Python dictionaries, modelled as functions.         *)

DictSet(d, k, v) == [x \in DOMAIN d \cup {k} |-> IF x = k THEN v ELSE d[x]]

\* del d[k] followed by a renumbering: the integer keys above k move down
\* by one.
DictDel_renumbers(d, k) ==
    [x \in { IF y > k THEN y - 1 ELSE y : y \in DOMAIN d \ {k} } |->
        IF x >= k THEN d[x + 1] ELSE d[x]]

DictDel(d, k) == [x \in DOMAIN d \ {k} |-> d[x]]

EmptyDict == [x \in {} |-> x]

\* list.remove(x): drops the first element equal to x.
RECURSIVE ListRemove(_, _)
ListRemove(l, x) ==
    IF l = <<>> THEN <<>>
    ELSE IF Head(l) = x THEN Tail(l)
    ELSE <<Head(l)>> \o ListRemove(Tail(l), x)


-----------------------------------------------------------------------------
(* The parts of the program are checked one at a time: while one part      *)
(* runs, the state of the others is the state before they start.           *)

\* No UNITS statement in the file.
NoStatement == [absent |-> TRUE]

AsmIdle ==
    /\ nets = <<>>
    /\ net2id = EmptyDict
    /\ id2net_info = EmptyDict
    /\ current_keys = <<>>
    /\ seen = {}
    /\ key_idx = 0
    /\ net_i = 0
    /\ main_pc = "idle"

FmtIdle ==
    /\ seperate_components = <<>>
    /\ formatter = "none"
    /\ format_result = [raised |-> FALSE, value |-> EmptyDict]
    /\ fmt_pc = "idle"

SepIdle ==
    /\ sep_line = <<>>
    /\ sep_i = 0
    /\ tokens = <<>>
    /\ token_starts = <<>>
    /\ sep_pc = "idle"

HdrIdle ==
    /\ units_stmt = NoStatement
    /\ hdr_pc = "idle"

ParseIdle ==
    /\ def_file = <<>>
    /\ used_prefix = <<>>
    /\ file_pos = 0
    /\ block_collector = EmptyDict
    /\ used_block_collector = EmptyDict
    /\ header_info = EmptyDict
    /\ section_k = 0
    /\ seperated_head_line = <<>>
    /\ component_list = <<>>
    /\ net_list = <<>>
    /\ parse_result = EmptyDict
    /\ parse_pc = "idle"

BlockIdle ==
    /\ list_of_raw_sections = <<>>
    /\ block_transformer = "none"
    /\ block_k = 0
    /\ head_tokens = <<>>
    /\ result_list = <<>>
    /\ block_result = [raised |-> FALSE, value |-> <<>>]
    /\ block_pc = "idle"

InsIdle ==
    /\ components = <<>>
    /\ instance2id = EmptyDict
    /\ id2instance_info = EmptyDict
    /\ ins_i = 0
    /\ ins_pc = "idle"

-----------------------------------------------------------------------------
(* Text: a Python str is a sequence of one-character strings.              *)

\* str.isspace() of one character (the blank and the tab of the alphabet).
IsSpace(c) == c \in {" ", "\t"}

\* str.isdigit() of one character, and the digit's value.
Digits == <<"0", "1", "2", "3", "4", "5", "6", "7", "8", "9">>

IsDigit(c) == \E d \in 1..10 : Digits[d] = c

DigitValue(c) == (CHOOSE d \in 1..10 : Digits[d] = c) - 1

SpaceChars == {" ", "\t"}

DigitChars == {Digits[d] : d \in 1..10}

\* The position of the first character at or after p that is not in Chars,
\* or Len(s) + 1: the end of a greedy run \s+ or \d+ that starts at p.
RECURSIVE RunEnd(_, _, _)
RunEnd(s, p, Chars) ==
    IF p <= Len(s) /\ s[p] \in Chars THEN RunEnd(s, p + 1, Chars) ELSE p

RECURSIVE RunEndNot(_, _, _)
RunEndNot(s, p, Chars) ==
    IF p <= Len(s) /\ s[p] \notin Chars THEN RunEndNot(s, p + 1, Chars) ELSE p

\* The same runs with Python's positions, counted from 0:
\* "while j < len(s) and s[j] in Chars: j += 1" leaves j = Run0(s, j, Chars).
Run0(s, j, Chars) == RunEnd(s, j + 1, Chars) - 1

RunNot0(s, j, Chars) == RunEndNot(s, j + 1, Chars) - 1

\* s[j], j counted from 0.
Ch(s, j) == s[j + 1]

Min(a, b) == IF a < b THEN a ELSE b

\* The slice s[a:b], a and b counted from 0; b is clamped to len(s).
Slice(s, a, b) == SubSeq(s, a + 1, Min(b, Len(s)))

\* The position after the last character of s that is not in Chars (0 if none).
RECURSIVE LastNotIn(_, _)
LastNotIn(s, Chars) ==
    IF s = <<>> \/ s[Len(s)] \notin Chars THEN Len(s)
    ELSE LastNotIn(SubSeq(s, 1, Len(s) - 1), Chars)

\* str.strip(chars): s without its leading and trailing characters of Chars.
StripChars(s, Chars) ==
    LET a == Run0(s, 0, Chars)
        b == LastNotIn(s, Chars)
    IN  IF a >= b THEN <<>> ELSE Slice(s, a, b)

\* str.strip().
Strip(s) == StripChars(s, SpaceChars)

\* str.split(): the maximal runs of non-whitespace characters, in order.
RECURSIVE SplitFrom(_, _)
SplitFrom(s, j) ==
    LET a == Run0(s, j, SpaceChars)
        b == RunNot0(s, a, SpaceChars)
    IN  IF a >= Len(s) THEN <<>>
        ELSE <<Slice(s, a, b)>> \o SplitFrom(s, b)

Split(s) == SplitFrom(s, 0)

\* s.endswith(w).
EndsWith(s, w) ==
    /\ Len(w) <= Len(s)
    /\ \A k \in 1..Len(w) : s[Len(s) - Len(w) + k] = w[k]

\* int() of a run of decimal digits.
RECURSIVE DecimalValue(_)
DecimalValue(ds) ==
    IF ds = <<>> THEN 0
    ELSE 10 * DecimalValue(SubSeq(ds, 1, Len(ds) - 1)) + DigitValue(ds[Len(ds)])

\* s without its underscores.
RECURSIVE DropUnderscores(_)
DropUnderscores(s) ==
    IF s = <<>> THEN <<>>
    ELSE IF Head(s) = "_" THEN DropUnderscores(Tail(s))
    ELSE <<Head(s)>> \o DropUnderscores(Tail(s))

\* int(s) of a str: surrounding whitespace, an optional sign, decimal digits
\* with single underscores between them; anything else is a ValueError.
IntParse(s) ==
    LET t    == Strip(s)
        sgn  == t # <<>> /\ t[1] \in {"+", "-"}
        body == IF sgn THEN Tail(t) ELSE t
        ok   == /\ body # <<>>
                /\ \A k \in 1..Len(body) : body[k] \in DigitChars \cup {"_"}
                /\ body[1] # "_" /\ body[Len(body)] # "_"
                /\ \A k \in 1..(Len(body) - 1) : ~(body[k] = "_" /\ body[k + 1] = "_")
    IN  [ok |-> ok,
         value |-> IF ~ok THEN 0
                   ELSE IF sgn /\ t[1] = "-" THEN 0 - DecimalValue(DropUnderscores(body))
                   ELSE DecimalValue(DropUnderscores(body))]

\* s[p-1:].startswith(w), p counted from 1.
StartsWithAt(s, p, w) ==
    /\ p + Len(w) - 1 <= Len(s)
    /\ \A k \in 1..Len(w) : s[p + k - 1] = w[k]

StartsWith(s, w) == StartsWithAt(s, 1, w)


-----------------------------------------------------------------------------
(* Final assembly of the nets: parse_def.py lines 306-338.                 *)

\* The list comprehension of lines 320-323: the connections of a net record
\* as stored in id2net_info, PIN entries dropped, keys renamed.
RECURSIVE FilterPIN_keepsPIN(_)
FilterPIN_keepsPIN(conns) ==
    IF conns = <<>> THEN <<>>
    ELSE <<[instance_name |-> Head(conns).ins_name,
            pin_name |-> Head(conns).pin_name]>>
         \o FilterPIN_keepsPIN(Tail(conns))

RECURSIVE FilterPIN(_)
FilterPIN(conns) ==
    IF conns = <<>> THEN <<>>
    ELSE IF Head(conns).ins_name # PinMarker
         THEN <<[instance_name |-> Head(conns).ins_name,
                 pin_name |-> Head(conns).pin_name]>>
              \o FilterPIN(Tail(conns))
         ELSE FilterPIN(Tail(conns))

\* The dict comprehension of lines 312-313: a later duplicate name overwrites.
RECURSIVE NameToIndex(_, _)
NameToIndex(recs, n) ==
    IF n = 0 THEN EmptyDict
    ELSE DictSet(NameToIndex(recs, n - 1), recs[n].net_name, n - 1)

AsmInit ==
    /\ nets \in SeqsUpTo(NetRecords, MaxNets)
    /\ net2id = EmptyDict
    /\ id2net_info = EmptyDict
    /\ current_keys = <<>>
    /\ seen = {}
    /\ key_idx = 0
    /\ net_i = 0
    /\ main_pc = "nets"
    /\ HdrIdle
    /\ ParseIdle
    /\ SepIdle
    /\ FmtIdle
    /\ BlockIdle
    /\ InsIdle

\* Lines 310-313 and 337-338: the test for net records, and net2id.
StartNets ==
    /\ main_pc = "nets"
    /\ IF Len(nets) > 0
       THEN /\ net2id' = NameToIndex(nets, Len(nets))
            /\ main_pc' = "build"
       ELSE /\ net2id' = net2id
            /\ main_pc' = "done"
    /\ UNCHANGED <<nets, id2net_info, current_keys, seen, key_idx, net_i>>
    /\ UNCHANGED notAsm

\* Lines 315-324: one iteration of the loop that fills id2net_info.
BuildNetInfo ==
    /\ main_pc = "build"
    /\ net_i < Len(nets)
    /\ id2net_info' = DictSet(id2net_info, net_i,
                              [net_name |-> nets[net_i + 1].net_name,
                               connections |-> FilterPIN(nets[net_i + 1].connections)])
    /\ net_i' = net_i + 1
    /\ UNCHANGED <<nets, net2id, current_keys, seen, key_idx, main_pc>>
    /\ UNCHANGED notAsm

\* Lines 327-328: the prune loop's set and its list of keys (0..n-1 in
\* insertion order).
StartPrune ==
    /\ main_pc = "build"
    /\ net_i = Len(nets)
    /\ seen' = {}
    /\ current_keys' = [k \in 1..Len(nets) |-> k - 1]
    /\ key_idx' = 0
    /\ main_pc' = "prune"
    /\ UNCHANGED <<nets, net2id, id2net_info, net_i>>
    /\ UNCHANGED notAsm

\* Lines 329-334: one iteration of "for key in current_keys".  The list
\* iterator yields current_keys[key_idx] and advances; current_keys.remove
\* shortens the very list it walks.
PruneStep ==
    /\ main_pc = "prune"
    /\ key_idx < Len(current_keys)
    /\ LET key == current_keys[key_idx + 1] IN
       IF key \notin seen
       THEN /\ seen' = seen \cup {key}
            /\ IF Len(id2net_info[key].connections) = 1
               THEN /\ id2net_info' = DictDel(id2net_info, key)
                    /\ current_keys' = ListRemove(current_keys, key)
               ELSE UNCHANGED <<id2net_info, current_keys>>
       ELSE UNCHANGED <<seen, id2net_info, current_keys>>
    /\ key_idx' = key_idx + 1
    /\ UNCHANGED <<nets, net2id, net_i, main_pc>>
    /\ UNCHANGED notAsm

\* The list iterator is exhausted: line 336.
PruneDone ==
    /\ main_pc = "prune"
    /\ key_idx >= Len(current_keys)
    /\ main_pc' = "done"
    /\ UNCHANGED <<nets, net2id, id2net_info, current_keys, seen, key_idx, net_i>>
    /\ UNCHANGED notAsm

AsmNext == StartNets \/ BuildNetInfo \/ StartPrune \/ PruneStep \/ PruneDone

SpecAsm == AsmInit /\ [][AsmNext]_vars

-----------------------------------------------------------------------------
(* Properties of the final assembly.                                       *)

NonPIN(c) == c.ins_name # PinMarker

\* The number of PIN entries of a connection list of a net record.
NumPIN(conns) == Cardinality({j \in 1..Len(conns) : conns[j].ins_name = PinMarker})

Stored(c) == [instance_name |-> c.ins_name, pin_name |-> c.pin_name]

\* C1: a net record whose connections are exactly one PIN entry and one
\* entry of another instance is kept in id_to_net_info after final assembly,
\* with the single non-PIN entry as its stored connections.
C1_PinPairKept ==
    main_pc = "done" =>
        \A i \in 1..Len(nets) :
            LET conns == nets[i].connections IN
            (Len(conns) = 2 /\ NumPIN(conns) = 1) =>
                /\ (i - 1) \in DOMAIN id2net_info
                /\ \E j \in 1..2 :
                      /\ NonPIN(conns[j])
                      /\ id2net_info[i - 1].connections = <<Stored(conns[j])>>

\* C2: after final assembly every net with exactly one connection is absent
\* from id_to_net_info and every net with exactly two connections is present.
C2_OneAbsentTwoPresent ==
    main_pc = "done" =>
        \A i \in 1..Len(nets) :
            /\ Len(nets[i].connections) = 1 => (i - 1) \notin DOMAIN id2net_info
            /\ Len(nets[i].connections) = 2 => (i - 1) \in DOMAIN id2net_info

\* C3: after final assembly every net that remains in id_to_net_info has an
\* unfiltered connection count of at least 2.
C3_SurvivorsHaveTwo ==
    main_pc = "done" =>
        \A k \in DOMAIN id2net_info : Len(nets[k + 1].connections) >= 2

\* C4: in every entry of id_to_net_info the connections hold no PIN entry and
\* hold all non-PIN connections of the net record, in their original order
\* and with their pin names unchanged.
C4_ConnectionsArePinFiltered ==
    \A k \in DOMAIN id2net_info :
        LET st  == id2net_info[k].connections
            sel == SelectSeq(nets[k + 1].connections, NonPIN)
        IN  /\ \A j \in 1..Len(st) : st[j].instance_name # PinMarker
            /\ Len(st) = Len(sel)
            /\ \A j \in 1..Len(st) :
                  /\ st[j].instance_name = sel[j].ins_name
                  /\ st[j].pin_name = sel[j].pin_name

\* A finished assembly that kept a net whose record mixes a PIN entry with
\* two connections of other instances.
C4_Witness ==
    /\ main_pc = "done"
    /\ \E k \in DOMAIN id2net_info :
          /\ NumPIN(nets[k + 1].connections) >= 1
          /\ Len(id2net_info[k].connections) = 2
          /\ id2net_info[k].connections[1].pin_name # id2net_info[k].connections[2].pin_name

-----------------------------------------------------------------------------
(* Header extraction: DefParser._parse_header_info, parse_def.py 154-177.  *)

S_UNITS    == <<"U", "N", "I", "T", "S">>
S_DISTANCE == <<"D", "I", "S", "T", "A", "N", "C", "E">>
S_MICRONS  == <<"M", "I", "C", "R", "O", "N", "S">>

\* re.search(r'UNITS\s+DISTANCE\s+MICRONS\s+(\d+)', s) tried at position p:
\* each \s+ is the greedy run of whitespace (the literal after it is no
\* whitespace, so nothing is given back) and (\d+) the greedy run of digits.
UnitsMatchAt(s, p) ==
    LET a  == p + Len(S_UNITS)
        b  == RunEnd(s, a, SpaceChars)
        c  == b + Len(S_DISTANCE)
        d  == RunEnd(s, c, SpaceChars)
        e  == d + Len(S_MICRONS)
        f  == RunEnd(s, e, SpaceChars)
        g  == RunEnd(s, f, DigitChars)
        ok == /\ StartsWithAt(s, p, S_UNITS)
              /\ b > a
              /\ StartsWithAt(s, b, S_DISTANCE)
              /\ d > c
              /\ StartsWithAt(s, d, S_MICRONS)
              /\ f > e
              /\ g > f
    IN  [matched |-> ok, group1 |-> IF ok THEN SubSeq(s, f, g - 1) ELSE <<>>]

\* re.search: the match at the leftmost position that has one, else None.
RECURSIVE UnitsSearchFrom(_, _)
UnitsSearchFrom(s, p) ==
    IF p > Len(s) THEN [matched |-> FALSE, group1 |-> <<>>]
    ELSE IF UnitsMatchAt(s, p).matched THEN UnitsMatchAt(s, p)
    ELSE UnitsSearchFrom(s, p + 1)

UnitsSearch_noWhitespaceRun(s) ==
    IF StartsWith(s, S_UNITS \o <<" ">> \o S_DISTANCE \o <<" ">> \o S_MICRONS \o <<" ">>)
    THEN UnitsSearchFrom(s, 1)
    ELSE [matched |-> FALSE, group1 |-> <<>>]

UnitsSearch(s) == UnitsSearchFrom(s, 1)

DefaultUnits == 1000

\* Lines 154-177 of _parse_header_info: the 'units' entry of header_info.
ParseHeaderInfo(bc) ==
    IF S_UNITS \in DOMAIN bc
    THEN LET units_line == bc[S_UNITS][1]
             match == UnitsSearch(units_line)
         IN  IF match.matched
             THEN [units |-> [distance |-> "MICRONS",
                              database_units_per_micron |-> DecimalValue(match.group1)]]
             ELSE [units |-> [distance |-> "MICRONS",
                              database_units_per_micron |-> DefaultUnits]]
    ELSE [units |-> [distance |-> "MICRONS",
                     database_units_per_micron |-> DefaultUnits]]

\* The UNITS statements of the input: a line whose first word is UNITS,
\* written with these pieces.
UnitsGap == { <<>>, <<" ">>, <<" ", " ">>, <<"\t">>, <<" ", "\t", " ">> }

UnitsStatements ==
    [lead : { <<>>, <<" ">> },
     gap1 : UnitsGap \ { <<>> },
     word2 : { S_DISTANCE, <<"D", "I", "S", "T", "A", "N", "C", "E", "S">> },
     gap2 : UnitsGap,
     word3 : { S_MICRONS, <<"m", "i", "c", "r", "o", "n", "s">> },
     gap3 : UnitsGap,
     num : { <<>>, <<"5">>, <<"2", "0">>, <<"2", "0", "0", "0">>, <<"x">> },
     tail : { <<>>, <<" ", ";">> }]

UnitsText(u) ==
    u.lead \o S_UNITS \o u.gap1 \o u.word2 \o u.gap2 \o u.word3 \o u.gap3
    \o u.num \o u.tail

\* The state after the scan of a file with or without a UNITS statement:
\* block_collector['UNITS'][0] is the statement's text.
HdrInit ==
    /\ units_stmt \in UnitsStatements \cup {NoStatement}
    /\ block_collector = IF units_stmt = NoStatement THEN EmptyDict
                         ELSE [k \in {S_UNITS} |-> <<UnitsText(units_stmt)>>]
    /\ header_info = EmptyDict
    /\ hdr_pc = "scanned"
    /\ def_file = <<>>
    /\ used_prefix = <<>>
    /\ file_pos = 0
    /\ used_block_collector = EmptyDict
    /\ section_k = 0
    /\ seperated_head_line = <<>>
    /\ component_list = <<>>
    /\ net_list = <<>>
    /\ parse_result = EmptyDict
    /\ parse_pc = "idle"
    /\ AsmIdle
    /\ SepIdle
    /\ FmtIdle
    /\ BlockIdle
    /\ InsIdle

\* Line 88: self.header_info = self._parse_header_info().
HeaderStep ==
    /\ hdr_pc = "scanned"
    /\ header_info' = ParseHeaderInfo(block_collector)
    /\ hdr_pc' = "extracted"
    /\ UNCHANGED <<units_stmt, block_collector>>
    /\ UNCHANGED notHdr

HdrNext == HeaderStep

SpecHdr == HdrInit /\ [][HdrNext]_vars

\* The pieces of a UNITS statement make the pattern's shape: the two words
\* are DISTANCE and MICRONS, each gap holds whitespace, a digit follows.
UnitsWellFormed(u) ==
    /\ u.word2 = S_DISTANCE /\ u.word3 = S_MICRONS
    /\ u.gap2 # <<>> /\ u.gap3 # <<>>
    /\ u.num # <<>> /\ u.num # <<"x">>

UnitsWritten(u) ==
    IF u.num = <<"5">> THEN 5
    ELSE IF u.num = <<"2", "0">> THEN 20
    ELSE IF u.num = <<"2", "0", "0", "0">> THEN 2000
    ELSE -1

\* C5: database_units_per_micron is 1000 when the file has no UNITS
\* statement or the statement does not match the pattern; when it matches, it
\* is the integer written, whatever whitespace separates the words; in all
\* three cases header.units exists with distance "MICRONS".
C5_UnitsValue ==
    hdr_pc = "extracted" =>
        /\ "units" \in DOMAIN header_info
        /\ header_info["units"].distance = "MICRONS"
        /\ header_info["units"].database_units_per_micron =
              IF units_stmt = NoStatement THEN 1000
              ELSE IF UnitsWellFormed(units_stmt) THEN UnitsWritten(units_stmt)
              ELSE 1000

\* A statement written with a tab and several blanks between its words,
\* whose number is not the default, has been extracted.
C5_Witness ==
    /\ hdr_pc = "extracted"
    /\ units_stmt # NoStatement
    /\ UnitsWellFormed(units_stmt)
    /\ units_stmt.gap2 = <<" ", "\t", " ">>
    /\ units_stmt.gap3 = <<" ", " ">>
    /\ header_info["units"].database_units_per_micron = 2000

-----------------------------------------------------------------------------
(* The tokenizer: CommonLineSeperator.seperate, specific.py 54-128.        *)
(* Positions are counted from 0, as in the code.                           *)

MaxLine == 5

\* The characters of the lines that are separated: a word character, the
\* blank, and the four characters the rules look for, with the backslash.
SepAlphabet == {"a", " ", "+", "(", ")", "\"", "\\"}

WordStop == SpaceChars \cup {"\""}

\* Rule 1 leaving the position where it is when no word follows the "+".
PlusToken_noAdvance(ln, p) ==
    LET word_start == Run0(ln, p + 1, SpaceChars)
        j == RunNot0(ln, word_start, WordStop)
    IN  IF word_start < j
        THEN [tok |-> <<"+", " ">> \o Slice(ln, word_start, j), next |-> j]
        ELSE [tok |-> <<"+">>, next |-> p]

\* Rule 1 emitting the text from the "+" to the end of the word as it stands
\* in the line.
PlusToken_keepsGap(ln, p) ==
    LET word_start == Run0(ln, p + 1, SpaceChars)
        j == RunNot0(ln, word_start, WordStop)
    IN  IF word_start < j
        THEN [tok |-> Slice(ln, p, j), next |-> j]
        ELSE [tok |-> <<"+">>, next |-> p + 1]

\* Rule 1, lines 68-84, at a "+" that is not the last character: the token
\* and the position after it.
PlusToken(ln, p) ==
    LET word_start == Run0(ln, p + 1, SpaceChars)
        j == RunNot0(ln, word_start, WordStop)
    IN  IF word_start < j
        THEN [tok |-> <<"+", " ">> \o Slice(ln, word_start, j), next |-> j]
        ELSE [tok |-> <<"+">>, next |-> p + 1]

\* The loop of lines 90-95: j after the group that paren_count closes, or
\* len(line).
RECURSIVE ParenEnd_firstClose(_, _, _)
ParenEnd_firstClose(ln, j, paren_count) ==
    IF j < Len(ln) /\ paren_count > 0
    THEN ParenEnd_firstClose(ln, j + 1, IF Ch(ln, j) = ")" THEN 0 ELSE paren_count)
    ELSE j

RECURSIVE ParenEnd(_, _, _)
ParenEnd(ln, j, paren_count) ==
    IF j < Len(ln) /\ paren_count > 0
    THEN ParenEnd(ln, j + 1,
                  IF Ch(ln, j) = "(" THEN paren_count + 1
                  ELSE IF Ch(ln, j) = ")" THEN paren_count - 1
                  ELSE paren_count)
    ELSE j

\* Rule 2, lines 87-98, at a "(" that starts the line or follows whitespace.
ParenToken(ln, p) ==
    LET j == ParenEnd(ln, p + 1, 1)
    IN  [tok |-> Slice(ln, p, j), next |-> j]

\* The loop stopping at the first quote, a backslash before it or not.
RECURSIVE QuoteEnd_noEscape(_, _)
QuoteEnd_noEscape(ln, j) ==
    IF j < Len(ln) /\ Ch(ln, j) # "\""
    THEN QuoteEnd_noEscape(ln, j + 1)
    ELSE j

\* The loop of lines 103-107: j at the closing quote, or at or past len(line).
RECURSIVE QuoteEnd(_, _)
QuoteEnd(ln, j) ==
    IF j < Len(ln) /\ Ch(ln, j) # "\""
    THEN IF Ch(ln, j) = "\\" THEN QuoteEnd(ln, j + 2) ELSE QuoteEnd(ln, j + 1)
    ELSE j

\* Rule 3 leaving the closing quote out of the token.
QuoteToken_dropsClosingQuote(ln, p) ==
    LET j0 == QuoteEnd(ln, p + 1)
        j  == IF j0 < Len(ln) THEN j0 + 1 ELSE j0
    IN  [tok |-> Slice(ln, p, j0), next |-> j]

\* Rule 3, lines 101-112, at a quote.
QuoteToken(ln, p) ==
    LET j0 == QuoteEnd(ln, p + 1)
        j  == IF j0 < Len(ln) THEN j0 + 1 ELSE j0
    IN  [tok |-> Slice(ln, p, j), next |-> j]

\* The loop of lines 116-120.
RECURSIVE WordEnd(_, _, _)
WordEnd(ln, p, j) ==
    IF j < Len(ln) /\ ~IsSpace(Ch(ln, j)) /\ Ch(ln, j) # "\""
    THEN IF Ch(ln, j) = "(" /\ j > p /\ IsSpace(Ch(ln, j - 1))
         THEN j
         ELSE WordEnd(ln, p, j + 1)
    ELSE j

\* Lines 115-126: a regular word; no token when the run is empty.
WordToken(ln, p) ==
    LET j == WordEnd(ln, p, p)
    IN  IF j > p THEN [tok |-> Slice(ln, p, j), next |-> j]
        ELSE [tok |-> <<>>, next |-> p + 1]

\* Which rule an iteration of the outer loop applies at position p, the
\* position after the whitespace of lines 61-62.
PlusApplies(ln, p)  == Ch(ln, p) = "+" /\ p + 1 < Len(ln)
ParenApplies(ln, p) == /\ ~PlusApplies(ln, p)
                       /\ Ch(ln, p) = "("
                       /\ (IF p = 0 THEN TRUE ELSE IsSpace(Ch(ln, p - 1)))
QuoteApplies(ln, p) == /\ ~PlusApplies(ln, p) /\ ~ParenApplies(ln, p)
                       /\ Ch(ln, p) = "\""
WordApplies(ln, p)  == /\ ~PlusApplies(ln, p) /\ ~ParenApplies(ln, p)
                       /\ ~QuoteApplies(ln, p)

\* One iteration of the outer loop that does not break, lines 59-126.
RuleAt(ln, p) ==
    IF PlusApplies(ln, p) THEN PlusToken(ln, p)
    ELSE IF ParenApplies(ln, p) THEN ParenToken(ln, p)
    ELSE IF QuoteApplies(ln, p) THEN QuoteToken(ln, p)
    ELSE WordToken(ln, p)

\* The outer loop from position p with the tokens toks: what seperate returns.
RECURSIVE SeperateFrom(_, _, _)
SeperateFrom(ln, p, toks) ==
    IF p >= Len(ln) THEN toks
    ELSE LET q == Run0(ln, p, SpaceChars) IN
         IF q >= Len(ln) THEN toks
         ELSE LET r == RuleAt(ln, q) IN
              SeperateFrom(ln, r.next,
                           IF r.tok = <<>> THEN toks ELSE Append(toks, r.tok))

\* seperate(line): lines 54-128.
Seperate(ln) == SeperateFrom(Strip(ln), 0, <<>>)

SepInit ==
    /\ sep_line \in SeqsUpTo(SepAlphabet, MaxLine)
    /\ sep_i = 0
    /\ tokens = <<>>
    /\ token_starts = <<>>
    /\ sep_pc = "call"
    /\ AsmIdle
    /\ HdrIdle
    /\ ParseIdle
    /\ FmtIdle
    /\ BlockIdle
    /\ InsIdle

\* Lines 55-57.
SeperateStart ==
    /\ sep_pc = "call"
    /\ sep_line' = Strip(sep_line)
    /\ sep_i' = 0
    /\ tokens' = <<>>
    /\ token_starts' = <<>>
    /\ sep_pc' = "loop"
    /\ UNCHANGED notSep

\* The position the rules are tried at: after the whitespace of lines 61-62.
AfterSpace == Run0(sep_line, sep_i, SpaceChars)

Emit(r, p) ==
    /\ sep_i' = r.next
    /\ tokens' = IF r.tok = <<>> THEN tokens ELSE Append(tokens, r.tok)
    /\ token_starts' = IF r.tok = <<>> THEN token_starts ELSE Append(token_starts, p)
    /\ UNCHANGED <<sep_line, sep_pc>>
    /\ UNCHANGED notSep

InLoop == sep_pc = "loop" /\ sep_i < Len(sep_line) /\ AfterSpace < Len(sep_line)

\* An iteration that takes rule 1 (lines 68-84).
PlusStep ==
    /\ InLoop
    /\ PlusApplies(sep_line, AfterSpace)
    /\ Emit(PlusToken(sep_line, AfterSpace), AfterSpace)

\* An iteration that takes rule 2 (lines 87-98).
ParenStep ==
    /\ InLoop
    /\ ParenApplies(sep_line, AfterSpace)
    /\ Emit(ParenToken(sep_line, AfterSpace), AfterSpace)

\* An iteration that takes rule 3 (lines 101-112).
QuoteStep ==
    /\ InLoop
    /\ QuoteApplies(sep_line, AfterSpace)
    /\ Emit(QuoteToken(sep_line, AfterSpace), AfterSpace)

\* An iteration that reaches the regular word (lines 115-126).
WordStep ==
    /\ InLoop
    /\ WordApplies(sep_line, AfterSpace)
    /\ Emit(WordToken(sep_line, AfterSpace), AfterSpace)

\* The loop ends (line 59 or the break of line 65): line 128.
SeperateReturn ==
    /\ sep_pc = "loop"
    /\ ~(sep_i < Len(sep_line) /\ AfterSpace < Len(sep_line))
    /\ sep_pc' = "return"
    /\ UNCHANGED <<sep_line, sep_i, tokens, token_starts>>
    /\ UNCHANGED notSep

SepNext ==
    SeperateStart \/ PlusStep \/ ParenStep \/ QuoteStep \/ WordStep \/ SeperateReturn

SpecSep == SepInit /\ [][SepNext]_vars

\* The stepwise scan and the function agree on the result.
SeperateAgrees == sep_pc = "return" => tokens = Seperate(sep_line)

-----------------------------------------------------------------------------
(* Properties of the tokenizer.                                            *)

\* The number of characters c among ln[a..b] (positions counted from 0).
CountCh(ln, a, b, c) == Cardinality({k \in a..b : Ch(ln, k) = c})

\* q closes the group that opens at p: q is the first position after p up
\* to which as many ")" as "(" were read.
Closes(ln, p, q) ==
    /\ q > p /\ q < Len(ln)
    /\ CountCh(ln, p, q, "(") = CountCh(ln, p, q, ")")
    /\ \A r \in (p + 1)..(q - 1) : CountCh(ln, p, r, "(") # CountCh(ln, p, r, ")")

\* A balanced group opens at p, at line start or after whitespace.
GroupAt(ln, p) ==
    /\ Ch(ln, p) = "("
    /\ (p = 0 \/ IsSpace(Ch(ln, p - 1)))
    /\ \E q \in 0..(Len(ln) - 1) : Closes(ln, p, q)

GroupText(ln, p) ==
    LET q == CHOOSE q \in 0..(Len(ln) - 1) : Closes(ln, p, q)
    IN  Slice(ln, p, q + 1)

\* C7 as stated: for every balanced group of the line that opens at line
\* start or after whitespace, whatever precedes it, one emitted token is the
\* exact text of the group.
C7_EveryGroupIsAToken ==
    sep_pc = "return" =>
        \A p \in 0..(Len(sep_line) - 1) :
            GroupAt(sep_line, p) =>
                \E k \in 1..Len(tokens) : tokens[k] = GroupText(sep_line, p)

\* C7 as amended: a balanced group that opens at line start or after
\* whitespace, and at whose "(" the scan starts a token, is emitted as the
\* one token that is the exact text of the group, both parentheses included.
C7_GroupAtTokenStartIsExact ==
    \A k \in 1..Len(tokens) :
        GroupAt(sep_line, token_starts[k]) =>
            tokens[k] = GroupText(sep_line, token_starts[k])

\* A group that follows a word and whitespace has been emitted.
C7_Witness ==
    /\ sep_pc = "return"
    /\ \E k \in 1..Len(tokens) :
          /\ token_starts[k] > 0
          /\ GroupAt(sep_line, token_starts[k])
          /\ Len(tokens[k]) >= 3

-----------------------------------------------------------------------------
(* The record formatters: specific.py 134-341.  A call either returns a   *)
(* record (a dict, modelled as a function of its keys) or raises.          *)

Returned(v) == [raised |-> FALSE, value |-> v]

Raised(e) == [raised |-> TRUE, value |-> [exception |-> e]]

S_PLUS_SP == <<"+", " ">>
\* The sentinel name written in lower case.
S_UNKNOWN_lowerCase == <<"u", "n", "k", "n", "o", "w", "n">>

S_UNKNOWN == <<"U", "N", "K", "N", "O", "W", "N">>
S_PLACED  == <<"P", "L", "A", "C", "E", "D">>
S_FIXED   == <<"F", "I", "X", "E", "D">>
S_COVER   == <<"C", "O", "V", "E", "R">>
S_N       == <<"N">>

\* seperate_components[k], k counted from 0.
Tok(toks, k) == toks[k + 1]

\* token.startswith('+ ').
IsPlusToken(t) == StartsWith(t, S_PLUS_SP)

\* token[2:].
AfterPlus(t) == SubSeq(t, 3, Len(t))

\* The loop of lines 177-179: the position of the next "+ " token at or
\* after k, or len(seperate_components).
RECURSIVE ValuesEnd(_, _)
ValuesEnd(toks, k) ==
    IF k < Len(toks) /\ ~IsPlusToken(Tok(toks, k)) THEN ValuesEnd(toks, k + 1) ELSE k

\* Lines 182-185: a feature's stored value.  A Python str is the kind
\* "str" with its text as the one item; a tuple is the kind "tuple".
FeatureValue_alwaysTuple(feature_values) ==
    [kind |-> "tuple", items |-> feature_values]

FeatureValue(feature_values) ==
    IF Len(feature_values) = 1
    THEN [kind |-> "str", items |-> feature_values]
    ELSE [kind |-> "tuple", items |-> feature_values]

\* The loop keeping the value a feature name already has.
RECURSIVE ParseFeatures_keepsFirst(_, _, _)
ParseFeatures_keepsFirst(toks, k, features) ==
    IF k >= Len(toks) THEN features
    ELSE IF IsPlusToken(Tok(toks, k))
         THEN LET e == ValuesEnd(toks, k + 1)
                  feature_values == SubSeq(toks, k + 2, e)
                  name == AfterPlus(Tok(toks, k))
              IN  ParseFeatures_keepsFirst(toks, e,
                      IF name \in DOMAIN features THEN features
                      ELSE DictSet(features, name, FeatureValue(feature_values)))
         ELSE ParseFeatures_keepsFirst(toks, k + 1, features)

\* The loop of lines 167-187 from position k with the features so far.
RECURSIVE ParseFeatures(_, _, _)
ParseFeatures(toks, k, features) ==
    IF k >= Len(toks) THEN features
    ELSE IF IsPlusToken(Tok(toks, k))
         THEN LET e == ValuesEnd(toks, k + 1)
                  feature_values == SubSeq(toks, k + 2, e)
              IN  ParseFeatures(toks, e,
                                DictSet(features, AfterPlus(Tok(toks, k)),
                                        FeatureValue(feature_values)))
         ELSE ParseFeatures(toks, k + 1, features)

ParenStrip == {"(", ")", " "}

NoPlacement == [found |-> FALSE]

IntCoord(n) == [kind |-> "int", int |-> n, str |-> <<>>]

StrCoord(t) == [kind |-> "str", int |-> 0, str |-> t]

\* A str value that gives zero coordinates when it holds no group of two
\* integers.
ScalarPlacement_syntheticZero(placed_data) ==
    LET coord_parts == Split(StripChars(placed_data, ParenStrip)) IN
    IF /\ StartsWith(placed_data, <<"(">>)
       /\ Len(coord_parts) >= 2
       /\ IntParse(coord_parts[1]).ok
       /\ IntParse(coord_parts[2]).ok
    THEN [found |-> TRUE,
          x |-> IntCoord(IntParse(coord_parts[1]).value),
          y |-> IntCoord(IntParse(coord_parts[2]).value),
          orientation |-> S_N]
    ELSE [found |-> TRUE, x |-> IntCoord(0), y |-> IntCoord(0), orientation |-> S_N]

\* Lines 198-208: the placement a str value gives.
ScalarPlacement(placed_data) ==
    IF StartsWith(placed_data, <<"(">>)
    THEN LET coord_parts == Split(StripChars(placed_data, ParenStrip)) IN
         IF Len(coord_parts) >= 2
         THEN IF IntParse(coord_parts[1]).ok /\ IntParse(coord_parts[2]).ok
              THEN [found |-> TRUE,
                    x |-> IntCoord(IntParse(coord_parts[1]).value),
                    y |-> IntCoord(IntParse(coord_parts[2]).value),
                    orientation |-> S_N]
              ELSE NoPlacement
         ELSE NoPlacement
    ELSE NoPlacement

\* Lines 210-226: the placement a tuple of two or more values gives.
TuplePlacement_lastIsOrientation(placed_data) ==
    LET coord_parts == Split(StripChars(placed_data[1], ParenStrip)) IN
    IF Len(coord_parts) >= 2 /\ IntParse(coord_parts[1]).ok /\ IntParse(coord_parts[2]).ok
    THEN [found |-> TRUE,
          x |-> IntCoord(IntParse(coord_parts[1]).value),
          y |-> IntCoord(IntParse(coord_parts[2]).value),
          orientation |-> placed_data[Len(placed_data)]]
    ELSE NoPlacement

TuplePlacement(placed_data) ==
    LET coords_str == placed_data[1]
        orientation == placed_data[2]
        coord_parts == Split(StripChars(coords_str, ParenStrip))
    IN  IF Len(coord_parts) >= 2
        THEN IF IntParse(coord_parts[1]).ok /\ IntParse(coord_parts[2]).ok
             THEN [found |-> TRUE,
                   x |-> IntCoord(IntParse(coord_parts[1]).value),
                   y |-> IntCoord(IntParse(coord_parts[2]).value),
                   orientation |-> orientation]
             ELSE [found |-> TRUE,
                   x |-> StrCoord(coord_parts[1]),
                   y |-> StrCoord(coord_parts[2]),
                   orientation |-> orientation]
        ELSE NoPlacement

\* Lines 195-226: the placement one feature value gives.
PlacementOf(placed_data) ==
    IF placed_data.kind = "str" THEN ScalarPlacement(placed_data.items[1])
    ELSE IF Len(placed_data.items) >= 2 THEN TuplePlacement(placed_data.items)
    ELSE NoPlacement

placement_keywords == <<S_PLACED, S_FIXED, S_COVER>>

\* The loop of lines 193-230 from the k-th keyword: the first keyword
\* present in features whose value gives a placement decides.
RECURSIVE ExtractPlacement(_, _)
ExtractPlacement(features, k) ==
    IF k > Len(placement_keywords) THEN NoPlacement
    ELSE IF placement_keywords[k] \in DOMAIN features
         THEN LET placement_info == PlacementOf(features[placement_keywords[k]]) IN
              IF placement_info.found THEN placement_info
              ELSE ExtractPlacement(features, k + 1)
         ELSE ExtractPlacement(features, k + 1)

\* ComponentHeadFormatter.format, lines 151-243.
ComponentFormat(toks) ==
    IF Len(toks) < 3
    THEN Returned([ins_name |-> S_UNKNOWN, cell_name |-> S_UNKNOWN, features |-> EmptyDict])
    ELSE LET features == ParseFeatures(toks, 3, EmptyDict)
             placement_info == ExtractPlacement(features, 1)
             result == [ins_name |-> Tok(toks, 1), cell_name |-> Tok(toks, 2),
                        features |-> features]
         IN  IF placement_info.found
             THEN Returned(DictSet(result, "placementInfo",
                                   <<placement_info.x, placement_info.y,
                                     placement_info.orientation>>))
             ELSE Returned(result)

\* Lines 259-269 and 303-311: the connection a token gives, if any.
ConnectionOf(t) ==
    LET parts == Split(StripChars(t, ParenStrip)) IN
    IF Len(parts) >= 2
    THEN <<[ins_name |-> parts[1], pin_name |-> parts[2]]>>
    ELSE <<>>

\* The loop of lines 256-269 over seperate_components[2:].
RECURSIVE NetConnections(_)
NetConnections(toks) ==
    IF toks = <<>> THEN <<>>
    ELSE ConnectionOf(Head(toks)) \o NetConnections(Tail(toks))

\* NetHeadFormatter.format, lines 252-274: seperate_components[1] raises
\* IndexError when there are fewer than two tokens.
NetFormat(toks) ==
    IF Len(toks) < 2 THEN Raised("IndexError")
    ELSE Returned([net_name |-> Tok(toks, 1),
                   connections |-> NetConnections(SubSeq(toks, 3, Len(toks)))])

NoValue == [has_value |-> FALSE, value |-> <<>>]

\* The loop without the property_start test: a group is a connection
\* wherever it stands.
RECURSIVE EnhancedNetLoop_noPropertyStart(_, _, _, _, _)
EnhancedNetLoop_noPropertyStart(toks, k, property_start, connections, properties) ==
    IF k >= Len(toks) THEN [connections |-> connections, properties |-> properties]
    ELSE LET token == Tok(toks, k) IN
         IF StartsWith(token, <<"(">>) /\ EndsWith(token, <<")">>)
         THEN EnhancedNetLoop_noPropertyStart(toks, k + 1, property_start,
                                              connections \o ConnectionOf(token), properties)
         ELSE IF IsPlusToken(token)
         THEN IF /\ k + 1 < Len(toks)
                 /\ ~StartsWith(Tok(toks, k + 1), <<"+">>)
                 /\ ~StartsWith(Tok(toks, k + 1), <<"(">>)
              THEN EnhancedNetLoop_noPropertyStart(toks, k + 2, TRUE, connections,
                                   Append(properties,
                                          [name |-> AfterPlus(token),
                                           has_value |-> TRUE,
                                           value |-> Tok(toks, k + 1)]))
              ELSE EnhancedNetLoop_noPropertyStart(toks, k + 1, TRUE, connections,
                                   Append(properties,
                                          [name |-> AfterPlus(token),
                                           has_value |-> FALSE,
                                           value |-> <<>>]))
         ELSE EnhancedNetLoop_noPropertyStart(toks, k + 1, property_start, connections,
                                              properties)

\* The loop taking whatever token follows a "+ NAME" token as its value.
RECURSIVE EnhancedNetLoop_anyNextValue(_, _, _, _, _)
EnhancedNetLoop_anyNextValue(toks, k, property_start, connections, properties) ==
    IF k >= Len(toks) THEN [connections |-> connections, properties |-> properties]
    ELSE LET token == Tok(toks, k) IN
         IF StartsWith(token, <<"(">>) /\ EndsWith(token, <<")">>) /\ ~property_start
         THEN EnhancedNetLoop_anyNextValue(toks, k + 1, property_start,
                                           connections \o ConnectionOf(token), properties)
         ELSE IF IsPlusToken(token)
         THEN IF k + 1 < Len(toks)
              THEN EnhancedNetLoop_anyNextValue(toks, k + 2, TRUE, connections,
                                   Append(properties,
                                          [name |-> AfterPlus(token),
                                           has_value |-> TRUE,
                                           value |-> Tok(toks, k + 1)]))
              ELSE EnhancedNetLoop_anyNextValue(toks, k + 1, TRUE, connections,
                                   Append(properties,
                                          [name |-> AfterPlus(token),
                                           has_value |-> FALSE,
                                           value |-> <<>>]))
         ELSE EnhancedNetLoop_anyNextValue(toks, k + 1, property_start, connections,
                                           properties)

\* The loop giving up at the first group of fewer than two words.
RECURSIVE EnhancedNetLoop_stopsAtBadGroup(_, _, _, _, _)
EnhancedNetLoop_stopsAtBadGroup(toks, k, property_start, connections, properties) ==
    IF k >= Len(toks) THEN [connections |-> connections, properties |-> properties]
    ELSE LET token == Tok(toks, k) IN
         IF StartsWith(token, <<"(">>) /\ EndsWith(token, <<")">>) /\ ~property_start
         THEN IF ConnectionOf(token) = <<>>
              THEN [connections |-> connections, properties |-> properties]
              ELSE EnhancedNetLoop_stopsAtBadGroup(toks, k + 1, property_start,
                                   connections \o ConnectionOf(token), properties)
         ELSE IF IsPlusToken(token)
         THEN IF /\ k + 1 < Len(toks)
                 /\ ~StartsWith(Tok(toks, k + 1), <<"+">>)
                 /\ ~StartsWith(Tok(toks, k + 1), <<"(">>)
              THEN EnhancedNetLoop_stopsAtBadGroup(toks, k + 2, TRUE, connections,
                                   Append(properties,
                                          [name |-> AfterPlus(token),
                                           has_value |-> TRUE,
                                           value |-> Tok(toks, k + 1)]))
              ELSE EnhancedNetLoop_stopsAtBadGroup(toks, k + 1, TRUE, connections,
                                   Append(properties,
                                          [name |-> AfterPlus(token),
                                           has_value |-> FALSE,
                                           value |-> <<>>]))
         ELSE EnhancedNetLoop_stopsAtBadGroup(toks, k + 1, property_start, connections,
                                              properties)

\* The loop of lines 298-335 from position k.
RECURSIVE EnhancedNetLoop(_, _, _, _, _)
EnhancedNetLoop(toks, k, property_start, connections, properties) ==
    IF k >= Len(toks) THEN [connections |-> connections, properties |-> properties]
    ELSE LET token == Tok(toks, k) IN
         IF StartsWith(token, <<"(">>) /\ EndsWith(token, <<")">>) /\ ~property_start
         THEN EnhancedNetLoop(toks, k + 1, property_start,
                              connections \o ConnectionOf(token), properties)
         ELSE IF IsPlusToken(token)
         THEN IF /\ k + 1 < Len(toks)
                 /\ ~StartsWith(Tok(toks, k + 1), <<"+">>)
                 /\ ~StartsWith(Tok(toks, k + 1), <<"(">>)
              THEN EnhancedNetLoop(toks, k + 2, TRUE, connections,
                                   Append(properties,
                                          [name |-> AfterPlus(token),
                                           has_value |-> TRUE,
                                           value |-> Tok(toks, k + 1)]))
              ELSE EnhancedNetLoop(toks, k + 1, TRUE, connections,
                                   Append(properties,
                                          [name |-> AfterPlus(token),
                                           has_value |-> FALSE,
                                           value |-> <<>>]))
         ELSE EnhancedNetLoop(toks, k + 1, property_start, connections, properties)

\* EnhancedNetHeadFormatter.format, lines 283-341.
EnhancedNetFormat(toks) ==
    IF Len(toks) < 2
    THEN Returned([net_name |-> S_UNKNOWN, connections |-> <<>>, properties |-> <<>>])
    ELSE LET r == EnhancedNetLoop(toks, 2, FALSE, <<>>, <<>>) IN
         Returned([net_name |-> Tok(toks, 1), connections |-> r.connections,
                   properties |-> r.properties])

\* The token sequences handed to the formatters: nothing, the dash alone,
\* the dash and a name, or these with a third token (a cell name, a first
\* connection or a "+ NAME" token) and up to MaxRest tokens after it.
MaxRest == 4

T_DASH   == <<"-">>
T_U1     == <<"U", "1">>
T_PLACED == S_PLUS_SP \o S_PLACED
T_FIXED  == S_PLUS_SP \o S_FIXED
T_COVER  == S_PLUS_SP \o S_COVER
T_XY     == <<"(", " ", "1", " ", "2", " ", ")">>
T_BADXY  == <<"(", " ", "a", " ", "2", " ", ")">>
T_ONE    == <<"(", "a", ")">>
T_PLUS   == <<"+">>

TailTokens == {S_N, T_PLACED, T_FIXED, T_COVER, T_XY, T_BADXY, T_ONE, T_PLUS}

FirstTokens == {S_N, T_XY, T_PLACED}

TokenSeqs ==
    { <<>>, <<T_DASH>>, <<T_DASH, T_U1>> }
    \cup { <<T_DASH, T_U1, first>> \o rest :
             first \in FirstTokens, rest \in SeqsUpTo(TailTokens, MaxRest) }

FmtInit ==
    /\ seperate_components \in TokenSeqs
    /\ formatter = "none"
    /\ format_result = Returned(EmptyDict)
    /\ fmt_pc = "call"
    /\ AsmIdle
    /\ HdrIdle
    /\ ParseIdle
    /\ SepIdle
    /\ BlockIdle
    /\ InsIdle

\* A call of ComponentHeadFormatter.format.
ComponentFormatCall ==
    /\ fmt_pc = "call"
    /\ formatter' = "ComponentHeadFormatter"
    /\ format_result' = ComponentFormat(seperate_components)
    /\ fmt_pc' = "done"
    /\ UNCHANGED seperate_components
    /\ UNCHANGED notFmt

\* A call of NetHeadFormatter.format.
NetFormatCall ==
    /\ fmt_pc = "call"
    /\ formatter' = "NetHeadFormatter"
    /\ format_result' = NetFormat(seperate_components)
    /\ fmt_pc' = "done"
    /\ UNCHANGED seperate_components
    /\ UNCHANGED notFmt

\* A call of EnhancedNetHeadFormatter.format.
EnhancedNetFormatCall ==
    /\ fmt_pc = "call"
    /\ formatter' = "EnhancedNetHeadFormatter"
    /\ format_result' = EnhancedNetFormat(seperate_components)
    /\ fmt_pc' = "done"
    /\ UNCHANGED seperate_components
    /\ UNCHANGED notFmt

FmtNext == ComponentFormatCall \/ NetFormatCall \/ EnhancedNetFormatCall

SpecFmt == FmtInit /\ [][FmtNext]_vars

-----------------------------------------------------------------------------
(* Properties of the record formatters.                                    *)

ComponentReturned == fmt_pc = "done" /\ formatter = "ComponentHeadFormatter"

\* The positions (counted from 0) of the "+ NAME" tokens at index 3 or later.
FeaturePositions(toks) == {k \in 3..(Len(toks) - 1) : IsPlusToken(Tok(toks, k))}

\* The tokens that follow position k up to the next "+ " token or the end.
ValuesAfter(toks, k) ==
    LET stops == {m \in (k + 1)..(Len(toks) - 1) : IsPlusToken(Tok(toks, m))}
        e == IF stops = {} THEN Len(toks)
             ELSE CHOOSE m \in stops : \A n \in stops : m <= n
    IN  SubSeq(toks, k + 2, e)

\* What C8 says of the feature token at position k.
ScalarOrMulti(toks, features, k) ==
    LET name == AfterPlus(Tok(toks, k))
        vals == ValuesAfter(toks, k)
    IN  /\ Len(vals) = 1 =>
              /\ name \in DOMAIN features
              /\ features[name].kind = "str"
              /\ features[name].items = vals
        /\ Len(vals) >= 2 =>
              /\ name \in DOMAIN features
              /\ features[name].kind = "tuple"
              /\ features[name].items = vals

PlacedShape(toks) ==
    /\ Len(toks) >= 6
    /\ Tok(toks, 0) = T_DASH
    /\ ~IsPlusToken(Tok(toks, 2))
    /\ Tok(toks, 3) \in {T_PLACED, T_FIXED, T_COVER}
    /\ Tok(toks, 4) = T_XY
    /\ Tok(toks, 5) = S_N
    /\ \A k \in 6..(Len(toks) - 1) : ~IsPlusToken(Tok(toks, k))

\* C9: for "-", name, cell, "+ K", "( x y )", o with integer x and y the
\* record's placementInfo is (x, y, o), also when value tokens follow o.
C9_PlacementFromGroup ==
    (ComponentReturned /\ PlacedShape(seperate_components)) =>
        /\ ~format_result.raised
        /\ "placementInfo" \in DOMAIN format_result.value
        /\ format_result.value["placementInfo"] = <<IntCoord(1), IntCoord(2), S_N>>

\* A placement was extracted from a sequence with a value token after the
\* orientation.
C9_Witness ==
    /\ ComponentReturned
    /\ PlacedShape(seperate_components)
    /\ Len(seperate_components) = 7
    /\ Tok(seperate_components, 6) # S_N
    /\ Tok(seperate_components, 3) = T_COVER
    /\ "placementInfo" \in DOMAIN format_result.value

\* C10: every record formatter returns a record for every token sequence,
\* the empty one and those of one token included; none raises.
C10_NoFormatterRaises ==
    fmt_pc = "done" => ~format_result.raised

-----------------------------------------------------------------------------
(* DefParser.parse of parse_def.py: the scan of the file, line by line,    *)
(* and what it returns.                                                     *)

S_COMPONENTS == <<"C", "O", "M", "P", "O", "N", "E", "N", "T", "S">>
S_NETS == <<"N", "E", "T", "S">>
S_END == <<"E", "N", "D">>

\* Lines 210-244 of parse_def.py.
Header_list ==
    { S_UNITS,
      <<"V", "E", "R", "S", "I", "O", "N">>,
      <<"N", "A", "M", "E", "S", "C", "A", "S", "E", "S", "E", "N", "S", "I", "T", "I", "V", "E">>,
      <<"D", "I", "V", "I", "D", "E", "R", "C", "H", "A", "R">>,
      <<"B", "U", "S", "B", "I", "T", "C", "H", "A", "R", "S">>,
      <<"D", "E", "S", "I", "G", "N">>,
      <<"T", "E", "C", "H", "N", "O", "L", "O", "G", "Y">> }

WithEndBlockList ==
    { S_COMPONENTS, S_NETS,
      <<"P", "R", "O", "P", "E", "R", "T", "Y", "D", "E", "F", "I", "N", "I", "T", "I", "O", "N", "S">>,
      <<"V", "I", "A", "S">>,
      <<"S", "T", "Y", "L", "E", "S">>,
      <<"N", "O", "N", "D", "E", "F", "A", "U", "L", "T", "R", "U", "L", "E", "S">>,
      <<"R", "E", "G", "I", "O", "N", "S">>,
      <<"P", "I", "N", "S">>,
      <<"P", "I", "N", "P", "R", "O", "P", "E", "R", "T", "I", "E", "S">>,
      <<"B", "L", "O", "C", "K", "A", "G", "E", "S">>,
      <<"S", "P", "E", "C", "I", "A", "L", "N", "E", "T", "S">>,
      <<"S", "C", "A", "N", "C", "H", "A", "I", "N", "S">>,
      <<"G", "R", "O", "U", "P", "S">>,
      <<"S", "L", "O", "T", "S">>,
      <<"F", "I", "L", "L", "S">>,
      <<"B", "E", "G", "I", "N", "E", "X", "T">> }

NoEndBlockList ==
    { <<"D", "I", "E", "A", "R", "E", "A">>,
      <<"R", "O", "W">>,
      <<"T", "R", "A", "C", "K", "S">>,
      <<"G", "C", "E", "L", "L", "G", "R", "I", "D">> }

\* HeaderParser.parse(f, line, prefix): the statement is the line itself;
\* _parse_header_info reads the text as element 0 of what is returned.
HeaderParserParse(f, pos, ln, prefix) == [result |-> <<ln>>, pos |-> pos]

\* BlockParserNoEnd.parse(f, line, prefix): the text of the one-line statement.
BlockParserNoEndParse(f, pos, ln, prefix) == [result |-> ln, pos |-> pos]

\* The end marker of a block: "END <prefix>".
IsEndMarker(ln, prefix) == Split(ln) = <<S_END, prefix>>

\* The position of the first end marker after the pos lines already read,
\* or the length of the file when the block is not closed.
RECURSIVE BlockEnd(_, _, _)
BlockEnd(f, pos, prefix) ==
    IF pos >= Len(f) THEN Len(f)
    ELSE IF IsEndMarker(f[pos + 1], prefix) THEN pos + 1
    ELSE BlockEnd(f, pos + 1, prefix)

\* The lines of an entry joined with single blanks.
RECURSIVE JoinLines(_)
JoinLines(lns) ==
    IF lns = <<>> THEN <<>>
    ELSE IF Len(lns) = 1 THEN Strip(lns[1])
    ELSE Strip(lns[1]) \o <<" ">> \o JoinLines(Tail(lns))

\* The RawSection of one entry: the joined text without its final ";".
RawSection(lns) ==
    LET text == Strip(JoinLines(lns))
        head == IF EndsWith(text, <<";">>) THEN Strip(SubSeq(text, 1, Len(text) - 1))
                ELSE text
    IN  [head_section |-> head, property_section |-> <<>>, raw_content |-> lns]

\* The entries of a block body: a line whose first word is "-" starts an
\* entry, any other line continues the entry before it.
RECURSIVE DashEntries(_, _, _)
DashEntries(lns, cur, acc) ==
    LET flushed == IF cur = <<>> THEN acc ELSE Append(acc, RawSection(cur)) IN
    IF lns = <<>> THEN flushed
    ELSE LET words == Split(Head(lns)) IN
         IF words # <<>> /\ words[1] = T_DASH
         THEN DashEntries(Tail(lns), <<Head(lns)>>, flushed)
         ELSE IF cur = <<>> THEN DashEntries(Tail(lns), cur, acc)
         ELSE DashEntries(Tail(lns), Append(cur, Head(lns)), acc)

\* MultiLineBlockParserWithEnd.parse(f, line, prefix): reads up to and
\* including the end marker and returns the entries of the block.
MultiLineBlockParserParse(f, pos, ln, prefix) ==
    LET e == BlockEnd(f, pos, prefix)
        last == IF e > pos /\ IsEndMarker(f[e], prefix) THEN e - 1 ELSE e
    IN  [result |-> DashEntries(SubSeq(f, pos + 1, last), <<>>, <<>>), pos |-> e]

\* BlockParserWithEnd.parse(f, line, prefix): reads up to and including the
\* end marker and returns one RawSection per line of the block.
BlockParserWithEndParse(f, pos, ln, prefix) ==
    LET e == BlockEnd(f, pos, prefix)
        last == IF e > pos /\ IsEndMarker(f[e], prefix) THEN e - 1 ELSE e
    IN  [result |-> [k \in 1..(last - pos) |->
                        [head_section |-> f[pos + k], property_section |-> <<>>]],
         pos |-> e]

\* Lines 63-85: the branch of the loop body a line takes.
ScanClass(ln) ==
    LET words == Split(ln) IN
    IF words = <<>> THEN "blank"
    ELSE IF StartsWith(words[1], <<"#">>) THEN "comment"
    ELSE IF words[1] \in Header_list THEN "header"
    ELSE IF words[1] \in NoEndBlockList THEN "no_end"
    ELSE IF words[1] \in WithEndBlockList THEN "with_end"
    ELSE "unknown"

\* The scan with an else branch that stores the line under its prefix.
ScanLine_storesUnknown(f, pos, bc) ==
    LET ln == f[pos + 1]
        kind == ScanClass(ln)
    IN  IF kind \in {"blank", "comment"} THEN [pos |-> pos + 1, bc |-> bc]
        ELSE LET prefix == Split(ln)[1] IN
             IF kind = "header"
             THEN LET r == HeaderParserParse(f, pos + 1, ln, prefix) IN
                  [pos |-> r.pos, bc |-> DictSet(bc, prefix, r.result)]
             ELSE IF kind = "no_end"
             THEN LET r == BlockParserNoEndParse(f, pos + 1, ln, prefix)
                      old == IF prefix \in DOMAIN bc THEN bc[prefix] ELSE <<>>
                  IN  [pos |-> r.pos, bc |-> DictSet(bc, prefix, Append(old, r.result))]
             ELSE IF kind = "with_end"
             THEN LET r == IF prefix = S_NETS \/ prefix = S_COMPONENTS
                           THEN MultiLineBlockParserParse(f, pos + 1, ln, prefix)
                           ELSE BlockParserWithEndParse(f, pos + 1, ln, prefix)
                  IN  [pos |-> r.pos, bc |-> DictSet(bc, prefix, r.result)]
             ELSE [pos |-> pos + 1, bc |-> DictSet(bc, prefix, <<ln>>)]

\* The scan storing the result of a statement without end marker in place
\* of what its prefix held.
ScanLine_noEndReplaces(f, pos, bc) ==
    LET ln == f[pos + 1]
        kind == ScanClass(ln)
    IN  IF kind \in {"blank", "comment"} THEN [pos |-> pos + 1, bc |-> bc]
        ELSE LET prefix == Split(ln)[1] IN
             IF kind = "header"
             THEN LET r == HeaderParserParse(f, pos + 1, ln, prefix) IN
                  [pos |-> r.pos, bc |-> DictSet(bc, prefix, r.result)]
             ELSE IF kind = "no_end"
             THEN LET r == BlockParserNoEndParse(f, pos + 1, ln, prefix) IN
                  [pos |-> r.pos, bc |-> DictSet(bc, prefix, <<r.result>>)]
             ELSE IF kind = "with_end"
             THEN LET r == IF prefix = S_NETS \/ prefix = S_COMPONENTS
                           THEN MultiLineBlockParserParse(f, pos + 1, ln, prefix)
                           ELSE BlockParserWithEndParse(f, pos + 1, ln, prefix)
                  IN  [pos |-> r.pos, bc |-> DictSet(bc, prefix, r.result)]
             ELSE [pos |-> pos + 1, bc |-> bc]

\* The scan keeping the first result of a header or block keyword.
ScanLine_firstKept(f, pos, bc) ==
    LET ln == f[pos + 1]
        kind == ScanClass(ln)
    IN  IF kind \in {"blank", "comment"} THEN [pos |-> pos + 1, bc |-> bc]
        ELSE LET prefix == Split(ln)[1] IN
             IF kind = "header"
             THEN LET r == HeaderParserParse(f, pos + 1, ln, prefix) IN
                  [pos |-> r.pos,
                   bc |-> IF prefix \in DOMAIN bc THEN bc ELSE DictSet(bc, prefix, r.result)]
             ELSE IF kind = "no_end"
             THEN LET r == BlockParserNoEndParse(f, pos + 1, ln, prefix)
                      old == IF prefix \in DOMAIN bc THEN bc[prefix] ELSE <<>>
                  IN  [pos |-> r.pos, bc |-> DictSet(bc, prefix, Append(old, r.result))]
             ELSE IF kind = "with_end"
             THEN LET r == IF prefix = S_NETS \/ prefix = S_COMPONENTS
                           THEN MultiLineBlockParserParse(f, pos + 1, ln, prefix)
                           ELSE BlockParserWithEndParse(f, pos + 1, ln, prefix)
                  IN  [pos |-> r.pos,
                       bc |-> IF prefix \in DOMAIN bc THEN bc ELSE DictSet(bc, prefix, r.result)]
             ELSE [pos |-> pos + 1, bc |-> bc]

\* Lines 59-85: one iteration of the loop, from pos lines read and the
\* block_collector bc, to the lines read and the block_collector after it.
ScanLine(f, pos, bc) ==
    LET ln == f[pos + 1]
        kind == ScanClass(ln)
    IN  IF kind \in {"blank", "comment"} THEN [pos |-> pos + 1, bc |-> bc]
        ELSE LET prefix == Split(ln)[1] IN
             IF kind = "header"
             THEN LET r == HeaderParserParse(f, pos + 1, ln, prefix) IN
                  [pos |-> r.pos, bc |-> DictSet(bc, prefix, r.result)]
             ELSE IF kind = "no_end"
             THEN LET r == BlockParserNoEndParse(f, pos + 1, ln, prefix)
                      old == IF prefix \in DOMAIN bc THEN bc[prefix] ELSE <<>>
                  IN  [pos |-> r.pos, bc |-> DictSet(bc, prefix, Append(old, r.result))]
             ELSE IF kind = "with_end"
             THEN LET r == IF prefix = S_NETS \/ prefix = S_COMPONENTS
                           THEN MultiLineBlockParserParse(f, pos + 1, ln, prefix)
                           ELSE BlockParserWithEndParse(f, pos + 1, ln, prefix)
                  IN  [pos |-> r.pos, bc |-> DictSet(bc, prefix, r.result)]
             ELSE [pos |-> pos + 1, bc |-> bc]

\* Lines 390-392 of specific.py: the raw lines attached to a formatted record.
AttachRawLines(formatted_head_line, raw_section) ==
    IF "raw_content" \in DOMAIN raw_section
    THEN DictSet(formatted_head_line, "raw_lines", raw_section.raw_content)
    ELSE formatted_head_line

\* A collection that takes every section found, required or not.
UsedBlockCollector_everySection(bc, used) == bc

\* Lines 95-100: self.used_block_collector.
UsedBlockCollector(bc, used) ==
    [p \in { used[k] : k \in 1..Len(used) } \cap DOMAIN bc |-> bc[p]]

\* The sections a block transformer is handed: those stored under the
\* prefix in used_block_collector, none when the prefix is absent.
SectionsOf(ubc, prefix) == IF prefix \in DOMAIN ubc THEN ubc[prefix] ELSE <<>>

\* The loop of lines 59-85 from pos lines read to the end of the file.
RECURSIVE ScanFrom(_, _, _)
ScanFrom(f, pos, bc) ==
    IF pos >= Len(f) THEN bc
    ELSE LET r == ScanLine(f, pos, bc) IN ScanFrom(f, r.pos, r.bc)

\* parse() as a function of the file and of used_prefix: lines 59-122, with
\* EnhancedBlockTransformer.transform of specific.py for the two blocks.
Parse(f, used) ==
    LET bc == ScanFrom(f, 0, EmptyDict)
        ubc == UsedBlockCollector(bc, used)
        cs == SectionsOf(ubc, S_COMPONENTS)
        ns == SectionsOf(ubc, S_NETS)
    IN  [components |-> [k \in 1..Len(cs) |->
                            AttachRawLines(ComponentFormat(Seperate(cs[k].head_section)).value,
                                           cs[k])],
         nets |-> [k \in 1..Len(ns) |->
                      AttachRawLines(EnhancedNetFormat(Seperate(ns[k].head_section)).value,
                                     ns[k])],
         header |-> ParseHeaderInfo(bc)]

\* The files of the model: up to MaxItems top-level items, each a one-line
\* statement, a comment line with a blank line after it, or a closed block.
MaxItems == 3

L_FOO     == <<"F", "O", "O", " ", "1", " ", ";">>
L_COMMENT == <<"#", " ", "c">>
L_BLANK   == <<>>
L_UNITS   == <<"U", "N", "I", "T", "S", " ", "D", "I", "S", "T", "A", "N", "C", "E", " ", "M", "I", "C", "R", "O", "N", "S", " ", "2", "0", " ", ";">>
L_ROW     == <<"R", "O", "W", " ", "r">>
L_ROW_2   == <<"R", "O", "W", " ", "s">>
L_UNITS_2 == <<"U", "N", "I", "T", "S", " ", "D", "I", "S", "T", "A", "N", "C", "E", " ", "M", "I", "C", "R", "O", "N", "S", " ", "1", "0", " ", ";">>

B_COMPONENTS_1 ==
    << <<"C", "O", "M", "P", "O", "N", "E", "N", "T", "S", " ", "1", " ", ";">>,
       <<"-", " ", "U", "1", " ", "N", " ", "+", " ", "P", "L", "A", "C", "E", "D", " ", "(", " ", "1", " ", "2", " ", ")", " ", "N", " ", ";">>,
       <<"E", "N", "D", " ", "C", "O", "M", "P", "O", "N", "E", "N", "T", "S">> >>

B_COMPONENTS_2 ==
    << <<"C", "O", "M", "P", "O", "N", "E", "N", "T", "S", " ", "2", " ", ";">>,
       <<"-", " ", "U", "2", " ", "N">>,
       <<" ", " ", "+", " ", "F", "I", "X", "E", "D", " ", "(", " ", "1", " ", "2", " ", ")", " ", "N", " ", ";">>,
       <<"-", " ", "U", "1", " ", "N", " ", ";">>,
       <<"E", "N", "D", " ", "C", "O", "M", "P", "O", "N", "E", "N", "T", "S">> >>

B_NETS ==
    << <<"N", "E", "T", "S", " ", "1", " ", ";">>,
       <<"-", " ", "n", "1", " ", "(", " ", "U", "1", " ", "A", " ", ")", " ", "(", " ", "P", "I", "N", " ", "X", " ", ")", " ", ";">>,
       <<"E", "N", "D", " ", "N", "E", "T", "S">> >>

FileItems ==
    { <<L_FOO>>, <<L_COMMENT, L_BLANK>>, <<L_UNITS>>, <<L_UNITS_2>>, <<L_ROW>>,
      <<L_ROW_2>>, B_COMPONENTS_1, B_COMPONENTS_2, B_NETS }

UsedPrefixes == { <<S_COMPONENTS>>, <<S_NETS>>, <<S_COMPONENTS, S_NETS>> }

\* The lines of a file given as its items.
RECURSIVE FileLines(_)
FileLines(items) ==
    IF items = <<>> THEN <<>> ELSE Head(items) \o FileLines(Tail(items))

ParseInit ==
    /\ def_file \in SeqsUpTo(FileItems, MaxItems)
    /\ used_prefix \in UsedPrefixes
    /\ file_pos = 0
    /\ block_collector = EmptyDict
    /\ used_block_collector = EmptyDict
    /\ header_info = EmptyDict
    /\ section_k = 0
    /\ seperated_head_line = <<>>
    /\ component_list = <<>>
    /\ net_list = <<>>
    /\ parse_result = EmptyDict
    /\ parse_pc = "scan"
    /\ AsmIdle
    /\ HdrIdle
    /\ SepIdle
    /\ FmtIdle
    /\ BlockIdle
    /\ InsIdle

\* What the transform steps leave alone.
scanned == <<def_file, used_prefix, file_pos, block_collector, used_block_collector,
             header_info>>

\* Line 59: a line was read and takes the branch kind of the loop body; the
\* body is taken as ScanLine computes it.
ReadLine(kind) ==
    /\ parse_pc = "scan"
    /\ file_pos < Len(FileLines(def_file))
    /\ ScanClass(FileLines(def_file)[file_pos + 1]) = kind
    /\ LET r == ScanLine(FileLines(def_file), file_pos, block_collector) IN
          /\ file_pos' = r.pos
          /\ block_collector' = r.bc
    /\ UNCHANGED <<def_file, used_prefix, used_block_collector, header_info, section_k,
                   seperated_head_line, component_list, net_list, parse_result, parse_pc>>
    /\ UNCHANGED notParse

\* Lines 63-66: a line without a word.
ReadBlank == ReadLine("blank")

\* Lines 69-70: a comment line.
ReadComment == ReadLine("comment")

\* Lines 72-73: a header statement.
ReadHeader == ReadLine("header")

\* Lines 74-77: a statement of a block without end marker.
ReadNoEnd == ReadLine("no_end")

\* Lines 78-83: a block with end marker.
ReadWithEnd == ReadLine("with_end")

\* Lines 84-85: an unknown prefix.
ReadUnknown == ReadLine("unknown")

\* Lines 87-100: the end of the file was reached; the header is extracted
\* and the used sections are collected.
ScanEnd ==
    /\ parse_pc = "scan"
    /\ file_pos >= Len(FileLines(def_file))
    /\ header_info' = ParseHeaderInfo(block_collector)
    /\ used_block_collector' = UsedBlockCollector(block_collector, used_prefix)
    /\ parse_pc' = "components"
    /\ UNCHANGED <<def_file, used_prefix, file_pos, block_collector, section_k,
                   seperated_head_line, component_list, net_list, parse_result>>
    /\ UNCHANGED notParse

\* Lines 387-388 of specific.py, within line 106: the head line of the next
\* raw section of COMPONENTS is separated.
ComponentSeperate ==
    /\ parse_pc = "components"
    /\ section_k < Len(SectionsOf(used_block_collector, S_COMPONENTS))
    /\ seperated_head_line' =
           Seperate(used_block_collector[S_COMPONENTS][section_k + 1].head_section)
    /\ parse_pc' = "component_format"
    /\ UNCHANGED <<scanned, section_k, component_list, net_list, parse_result>>
    /\ UNCHANGED notParse

\* Lines 389-394 and 441-442 of specific.py: the tokens are formatted and the
\* record is appended to the result list.
ComponentAppend ==
    /\ parse_pc = "component_format"
    /\ component_list' =
           Append(component_list,
                  AttachRawLines(ComponentFormat(seperated_head_line).value,
                                 used_block_collector[S_COMPONENTS][section_k + 1]))
    /\ section_k' = section_k + 1
    /\ parse_pc' = "components"
    /\ UNCHANGED <<scanned, seperated_head_line, net_list, parse_result>>
    /\ UNCHANGED notParse

\* Lines 103-108: the component transform is over (or COMPONENTS is not
\* among the used sections).
ComponentsDone ==
    /\ parse_pc = "components"
    /\ section_k >= Len(SectionsOf(used_block_collector, S_COMPONENTS))
    /\ section_k' = 0
    /\ parse_pc' = "nets"
    /\ UNCHANGED <<scanned, seperated_head_line, component_list, net_list, parse_result>>
    /\ UNCHANGED notParse

\* Lines 387-388 of specific.py, within line 113: the head line of the next
\* raw section of NETS is separated.
NetSeperate ==
    /\ parse_pc = "nets"
    /\ section_k < Len(SectionsOf(used_block_collector, S_NETS))
    /\ seperated_head_line' =
           Seperate(used_block_collector[S_NETS][section_k + 1].head_section)
    /\ parse_pc' = "net_format"
    /\ UNCHANGED <<scanned, section_k, component_list, net_list, parse_result>>
    /\ UNCHANGED notParse

\* Lines 389-394 and 441-442 of specific.py, with the multi-line net formatter.
NetAppend ==
    /\ parse_pc = "net_format"
    /\ net_list' =
           Append(net_list,
                  AttachRawLines(EnhancedNetFormat(seperated_head_line).value,
                                 used_block_collector[S_NETS][section_k + 1]))
    /\ section_k' = section_k + 1
    /\ parse_pc' = "nets"
    /\ UNCHANGED <<scanned, seperated_head_line, component_list, parse_result>>
    /\ UNCHANGED notParse

\* Lines 110-122: the net transform is over; parse returns.
ParseReturn ==
    /\ parse_pc = "nets"
    /\ section_k >= Len(SectionsOf(used_block_collector, S_NETS))
    /\ parse_result' = [components |-> component_list, nets |-> net_list,
                        header |-> header_info]
    /\ parse_pc' = "done"
    /\ UNCHANGED <<scanned, section_k, seperated_head_line, component_list, net_list>>
    /\ UNCHANGED notParse

ParseNext ==
    \/ ReadBlank
    \/ ReadComment
    \/ ReadHeader
    \/ ReadNoEnd
    \/ ReadWithEnd
    \/ ReadUnknown
    \/ ScanEnd
    \/ ComponentSeperate
    \/ ComponentAppend
    \/ ComponentsDone
    \/ NetSeperate
    \/ NetAppend
    \/ ParseReturn

SpecParse == ParseInit /\ [][ParseNext]_vars

\* ---- properties of the scan ----

\* The top-level statements whose prefix is in none of the keyword sets.
IsUnknownItem(item) == Len(item) = 1 /\ ScanClass(item[1]) = "unknown"

IsComponentsBlock(item) == item \in {B_COMPONENTS_1, B_COMPONENTS_2}

\* An unknown-prefix statement precedes a COMPONENTS block in the file.
UnknownBeforeComponents(items) ==
    \E a, b \in 1..Len(items) :
        a < b /\ IsUnknownItem(items[a]) /\ IsComponentsBlock(items[b])

NotUnknownItem(item) == ~IsUnknownItem(item)

\* The file without its unknown-prefix statements.
WithoutUnknown(items) == SelectSeq(items, NotUnknownItem)

\* The prefixes of the unknown-prefix statements of the file.
UnknownPrefixes(items) ==
    { Split(items[a][1])[1] : a \in { b \in 1..Len(items) : IsUnknownItem(items[b]) } }

\* C6: when unknown-prefix lines precede a well-formed COMPONENTS block,
\* parse leaves block_collector without an entry for them and returns the
\* component records of the file without those lines.
C6_UnknownLinesIgnored ==
    (parse_pc = "done" /\ UnknownBeforeComponents(def_file)) =>
        /\ UnknownPrefixes(def_file) \cap DOMAIN block_collector = {}
        /\ parse_result.components =
               Parse(FileLines(WithoutUnknown(def_file)), used_prefix).components

\* parse returned the two records of a COMPONENTS block read after an
\* unknown-prefix line.
C6_Witness ==
    /\ parse_pc = "done"
    /\ UnknownBeforeComponents(def_file)
    /\ def_file[Len(def_file)] = B_COMPONENTS_2
    /\ Len(parse_result.components) = 2
    /\ parse_result.components[1].ins_name = <<"U", "2">>
    /\ "placementInfo" \in DOMAIN parse_result.components[1]

-----------------------------------------------------------------------------
(* Properties of ComponentHeadFormatter.format on short and on placed       *)
(* entries.                                                                 *)

\* C11: on a token sequence of length 0, 1 or 2 ComponentHeadFormatter.format
\* returns exactly the sentinel record: instance name "UNKNOWN", cell name
\* "UNKNOWN", empty features, and no other key (no placementInfo).
C11_ShortEntrySentinel ==
    (ComponentReturned /\ Len(seperate_components) <= 2) =>
        /\ ~format_result.raised
        /\ DOMAIN format_result.value = {"ins_name", "cell_name", "features"}
        /\ format_result.value.ins_name = <<"U", "N", "K", "N", "O", "W", "N">>
        /\ format_result.value.cell_name = <<"U", "N", "K", "N", "O", "W", "N">>
        /\ DOMAIN format_result.value.features = {}

\* The formatter returned for the two-token sequence "-", "U1".
C11_Witness ==
    /\ ComponentReturned
    /\ seperate_components = <<T_DASH, T_U1>>
    /\ ~format_result.raised
    /\ "placementInfo" \notin DOMAIN format_result.value

-----------------------------------------------------------------------------
(* The block transformers of specific.py: component_block_transformer,     *)
(* net_block_transformer and enhanced_net_block_transformer.               *)

\* CommonLineClearer.clear_line, lines 24-32.
ClearLine(ln) ==
    LET cleaned_line == Strip(ln) IN
    IF EndsWith(cleaned_line, <<";">>)
    THEN Strip(SubSeq(cleaned_line, 1, Len(cleaned_line) - 1))
    ELSE cleaned_line

\* Lines 448-465: the three transformer instances.
BlockTransformers ==
    {"component_block_transformer", "net_block_transformer",
     "enhanced_net_block_transformer"}

\* The raw sections of the model: a component entry and a net entry as the
\* multi-line block parser gives them, the net entry and a lone dash as the
\* plain block parser gives them, up to MaxSections of them in a list.
MaxSections == 2

BlockSections ==
    { RawSection(<<B_COMPONENTS_1[2]>>),
      RawSection(<<B_NETS[2]>>),
      [head_section |-> B_NETS[2], property_section |-> <<>>],
      [head_section |-> T_DASH, property_section |-> <<>>] }

BlockInit ==
    /\ list_of_raw_sections \in SeqsUpTo(BlockSections, MaxSections)
    /\ block_transformer \in BlockTransformers
    /\ block_k = 0
    /\ head_tokens = <<>>
    /\ result_list = <<>>
    /\ block_result = Returned(<<>>)
    /\ block_pc = "loop"
    /\ AsmIdle
    /\ HdrIdle
    /\ ParseIdle
    /\ SepIdle
    /\ FmtIdle
    /\ InsIdle

\* Lines 359-365 and 379-385: the head line of the next raw section is
\* cleaned (by NoPerpertySectionTransformer only) and separated.
SectionSeperate ==
    /\ block_pc = "loop"
    /\ block_k < Len(list_of_raw_sections)
    /\ LET head_line == list_of_raw_sections[block_k + 1].head_section
           cleaned_head_line == IF block_transformer = "net_block_transformer"
                                THEN ClearLine(head_line) ELSE head_line
       IN  head_tokens' = Seperate(cleaned_head_line)
    /\ block_pc' = "format"
    /\ UNCHANGED <<list_of_raw_sections, block_transformer, block_k, result_list,
                   block_result>>
    /\ UNCHANGED notBlock

\* Lines 386-392 and 441-442 with ComponentHeadFormatter: the record is
\* formatted, given its raw lines and appended.
ComponentSectionFormat ==
    /\ block_pc = "format"
    /\ block_transformer = "component_block_transformer"
    /\ result_list' =
           Append(result_list,
                  AttachRawLines(ComponentFormat(head_tokens).value,
                                 list_of_raw_sections[block_k + 1]))
    /\ block_k' = block_k + 1
    /\ block_pc' = "loop"
    /\ UNCHANGED <<list_of_raw_sections, block_transformer, head_tokens, block_result>>
    /\ UNCHANGED notBlock

\* Lines 386-392 and 441-442 with EnhancedNetHeadFormatter.
EnhancedNetSectionFormat ==
    /\ block_pc = "format"
    /\ block_transformer = "enhanced_net_block_transformer"
    /\ result_list' =
           Append(result_list,
                  AttachRawLines(EnhancedNetFormat(head_tokens).value,
                                 list_of_raw_sections[block_k + 1]))
    /\ block_k' = block_k + 1
    /\ block_pc' = "loop"
    /\ UNCHANGED <<list_of_raw_sections, block_transformer, head_tokens, block_result>>
    /\ UNCHANGED notBlock

\* Lines 366-367 and 417-418 with NetHeadFormatter: the record is appended,
\* or the formatter's exception leaves transform.
NetSectionFormat ==
    /\ block_pc = "format"
    /\ block_transformer = "net_block_transformer"
    /\ IF Len(head_tokens) < 2
       THEN /\ block_result' = NetFormat(head_tokens)
            /\ block_pc' = "done"
            /\ UNCHANGED <<result_list, block_k>>
       ELSE /\ result_list' = Append(result_list, NetFormat(head_tokens).value)
            /\ block_k' = block_k + 1
            /\ block_pc' = "loop"
            /\ UNCHANGED block_result
    /\ UNCHANGED <<list_of_raw_sections, block_transformer, head_tokens>>
    /\ UNCHANGED notBlock

\* Lines 420 and 444: the loop is over; transform returns the list.
BlockReturn ==
    /\ block_pc = "loop"
    /\ block_k >= Len(list_of_raw_sections)
    /\ block_result' = Returned(result_list)
    /\ block_pc' = "done"
    /\ UNCHANGED <<list_of_raw_sections, block_transformer, block_k, head_tokens,
                   result_list>>
    /\ UNCHANGED notBlock

BlockNext ==
    \/ SectionSeperate
    \/ ComponentSectionFormat
    \/ EnhancedNetSectionFormat
    \/ NetSectionFormat
    \/ BlockReturn

SpecBlock == BlockInit /\ [][BlockNext]_vars

\* ---- properties of the block transformers ----

\* The section transformer of a block transformer on one raw section:
\* lines 359-367 and 379-392.
SectionTransform(transformer, raw_section) ==
    IF transformer = "net_block_transformer"
    THEN NetFormat(Seperate(ClearLine(raw_section.head_section)))
    ELSE IF transformer = "component_block_transformer"
    THEN Returned(AttachRawLines(ComponentFormat(Seperate(raw_section.head_section)).value,
                                 raw_section))
    ELSE Returned(AttachRawLines(EnhancedNetFormat(Seperate(raw_section.head_section)).value,
                                 raw_section))

\* C12: the output of a block transformer has the length of its input and
\* its i-th record is the section transformer's result on the i-th raw
\* section, for every list of raw sections.
C12_OutputFollowsInput ==
    block_pc = "done" =>
        /\ ~block_result.raised
        /\ Len(block_result.value) = Len(list_of_raw_sections)
        /\ \A k \in 1..Len(list_of_raw_sections) :
              block_result.value[k] =
                  SectionTransform(block_transformer, list_of_raw_sections[k]).value

\* What holds of every call that returns: the list follows the input.
BlockReturnedFollowsInput ==
    (block_pc = "done" /\ ~block_result.raised) =>
        /\ Len(block_result.value) = Len(list_of_raw_sections)
        /\ \A k \in 1..Len(list_of_raw_sections) :
              block_result.value[k] =
                  SectionTransform(block_transformer, list_of_raw_sections[k]).value

-----------------------------------------------------------------------------
(* Properties of what DefParser.parse returns for absent and for unused     *)
(* sections.                                                                *)

\* The keyword is the prefix of no line of the file.
NeverAPrefix(keyword, items) ==
    \A k \in 1..Len(FileLines(items)) :
        LET words == Split(FileLines(items)[k]) IN
        words = <<>> \/ words[1] # keyword

IsUsed(keyword) == \E k \in 1..Len(used_prefix) : used_prefix[k] = keyword

\* What parse returned for absent and for unused sections.
AbsentOrUnusedIsEmpty ==
    parse_pc = "done" =>
        /\ (NeverAPrefix(S_COMPONENTS, def_file) \/ ~IsUsed(S_COMPONENTS))
               => parse_result.components = <<>>
        /\ (NeverAPrefix(S_NETS, def_file) \/ ~IsUsed(S_NETS))
               => parse_result.nets = <<>>

\* A bound on the steps parse still has to take: the lines to read, then
\* two steps for each raw section of COMPONENTS and of NETS (there are no
\* more sections than lines), then the return.
ParseRank ==
    LET n == Len(FileLines(def_file)) IN
    IF parse_pc = "scan" THEN 5 * n + 10 - file_pos
    ELSE IF parse_pc = "components" THEN 4 * n + 6 - 2 * section_k
    ELSE IF parse_pc = "component_format" THEN 4 * n + 5 - 2 * section_k
    ELSE IF parse_pc = "nets" THEN 2 * n + 2 - 2 * section_k
    ELSE IF parse_pc = "net_format" THEN 2 * n + 1 - 2 * section_k
    ELSE 0

\* C13: parse runs to its return on every file (every step it takes brings
\* the return nearer, and the section it formats exists); a required
\* keyword that is the prefix of no line gives an empty record sequence
\* (components for COMPONENTS, nets for NETS), and so does a keyword of the
\* file that is not required.
C13_AbsentOrUnusedIsEmpty ==
    /\ []AbsentOrUnusedIsEmpty
    /\ [](parse_pc = "component_format"
             => section_k < Len(SectionsOf(used_block_collector, S_COMPONENTS)))
    /\ [](parse_pc = "net_format"
             => section_k < Len(SectionsOf(used_block_collector, S_NETS)))
    /\ [](ParseRank >= 0)
    /\ [][ParseRank' < ParseRank]_vars

\* parse returned for a file with a NETS block and no COMPONENTS block
\* when only COMPONENTS was required: one keyword is required and absent,
\* the other present and not required.
C13_Witness ==
    /\ parse_pc = "done"
    /\ used_prefix = <<S_COMPONENTS>>
    /\ NeverAPrefix(S_COMPONENTS, def_file)
    /\ ~NeverAPrefix(S_NETS, def_file)
    /\ S_NETS \in DOMAIN block_collector
    /\ parse_result.components = <<>>
    /\ parse_result.nets = <<>>

-----------------------------------------------------------------------------
(* The component assembly of parse_def.py (__main__, lines 278-301).        *)

\* The component records of the model: two instance names, two cell names,
\* with and without placementInfo; up to MaxComps of them in a list.
MaxComps == 3

T_U2 == <<"U", "2">>
T_INV == <<"I", "N", "V">>

ComponentRecords ==
    { [ins_name |-> n, cell_name |-> c, features |-> EmptyDict] :
        n \in {T_U1, T_U2}, c \in {S_N, T_INV} }
    \cup
    { [ins_name |-> n, cell_name |-> c, features |-> EmptyDict,
       placementInfo |-> <<IntCoord(1), IntCoord(2), S_N>>] :
        n \in {T_U1, T_U2}, c \in {S_N, T_INV} }

\* A name map in which the first record of a name keeps the name.
RECURSIVE InstanceToIndex_firstWins(_, _)
InstanceToIndex_firstWins(recs, n) ==
    IF n = 0 THEN EmptyDict
    ELSE LET d == InstanceToIndex_firstWins(recs, n - 1) IN
         IF recs[n].ins_name \in DOMAIN d THEN d
         ELSE DictSet(d, recs[n].ins_name, n - 1)

\* Lines 279-280: the dict comprehension over enumerate(components), for
\* the first n records.
RECURSIVE InstanceToIndex(_, _)
InstanceToIndex(recs, n) ==
    IF n = 0 THEN EmptyDict
    ELSE DictSet(InstanceToIndex(recs, n - 1), recs[n].ins_name, n - 1)

InsInit ==
    /\ components \in SeqsUpTo(ComponentRecords, MaxComps)
    /\ instance2id = EmptyDict
    /\ id2instance_info = EmptyDict
    /\ ins_i = 0
    /\ ins_pc = "names"
    /\ AsmIdle
    /\ HdrIdle
    /\ ParseIdle
    /\ SepIdle
    /\ FmtIdle
    /\ BlockIdle

\* Lines 279-284: instance2id, and the empty id2instance_info.
BuildInstanceToId ==
    /\ ins_pc = "names"
    /\ instance2id' = InstanceToIndex(components, Len(components))
    /\ ins_pc' = "build"
    /\ UNCHANGED <<components, id2instance_info, ins_i>>
    /\ UNCHANGED notIns

\* Lines 286-299: one iteration of the loop that fills id2instance_info.
BuildInstanceInfo ==
    /\ ins_pc = "build"
    /\ ins_i < Len(components)
    /\ LET comp == components[ins_i + 1] IN
       id2instance_info' =
           DictSet(id2instance_info, ins_i,
                   IF "placementInfo" \in DOMAIN comp
                   THEN [instance_name |-> comp.ins_name,
                         cell_name |-> comp.cell_name,
                         placementInfo |-> comp.placementInfo]
                   ELSE [instance_name |-> comp.ins_name,
                         cell_name |-> comp.cell_name])
    /\ ins_i' = ins_i + 1
    /\ UNCHANGED <<components, instance2id, ins_pc>>
    /\ UNCHANGED notIns

\* Lines 286 and 301: the loop is over.
InstancesDone ==
    /\ ins_pc = "build"
    /\ ins_i >= Len(components)
    /\ ins_pc' = "done"
    /\ UNCHANGED <<components, instance2id, id2instance_info, ins_i>>
    /\ UNCHANGED notIns

InsNext ==
    \/ BuildInstanceToId
    \/ BuildInstanceInfo
    \/ InstancesDone

SpecIns == InsInit /\ [][InsNext]_vars

\* ---- properties of the component assembly ----

\* The index (counted from 0) of the last record with the name.
LastIndexOf(recs, name) ==
    CHOOSE k \in 0..(Len(recs) - 1) :
        /\ recs[k + 1].ins_name = name
        /\ \A m \in (k + 1)..(Len(recs) - 1) : recs[m + 1].ins_name # name

\* C14: instance2id maps each name to the index of the last record with
\* that name; id2instance_info has exactly one entry per index 0..n-1, with
\* the names of the record at that index and with placementInfo exactly
\* when the record has one.
C14_NamesAndInfoPerIndex ==
    ins_pc = "done" =>
        /\ DOMAIN instance2id = { components[k].ins_name : k \in 1..Len(components) }
        /\ \A name \in DOMAIN instance2id :
              instance2id[name] = LastIndexOf(components, name)
        /\ DOMAIN id2instance_info = 0..(Len(components) - 1)
        /\ \A k \in 0..(Len(components) - 1) :
              LET info == id2instance_info[k]
                  comp == components[k + 1]
              IN  /\ info.instance_name = comp.ins_name
                  /\ info.cell_name = comp.cell_name
                  /\ ("placementInfo" \in DOMAIN info) <=> ("placementInfo" \in DOMAIN comp)
                  /\ "placementInfo" \in DOMAIN comp
                        => info.placementInfo = comp.placementInfo
                  /\ DOMAIN info \subseteq {"instance_name", "cell_name", "placementInfo"}

\* The assembly is done for three records of which the first and the last
\* share a name, one with a placement and one without.
C14_Witness ==
    /\ ins_pc = "done"
    /\ Len(components) = 3
    /\ components[1].ins_name = components[3].ins_name
    /\ components[2].ins_name # components[1].ins_name
    /\ "placementInfo" \in DOMAIN components[1]
    /\ "placementInfo" \notin DOMAIN components[3]
    /\ instance2id[components[1].ins_name] = 2
    /\ "placementInfo" \in DOMAIN id2instance_info[0]

-----------------------------------------------------------------------------
(* Properties of the dangling-net prune pass of parse_def.py (lines         *)
(* 326-334).                                                                *)

\* C15: the prune pass tests every net id of id_to_net_info: deleting a net
\* never leaves the net after it untested, so every net that satisfies the
\* prune condition of the code (one stored connection) is deleted, also
\* when two or more of them are consecutive.
C15_EveryNetTested ==
    (main_pc = "done" /\ Len(nets) > 0) =>
        /\ seen = 0..(Len(nets) - 1)
        /\ \A k \in 0..(Len(nets) - 1) :
              Len(FilterPIN(nets[k + 1].connections)) = 1 => k \notin DOMAIN id2net_info

-----------------------------------------------------------------------------
(* Properties of the placement extraction of ComponentHeadFormatter.format *)
(* (lines 189-243).                                                         *)

\* The first of PLACED, FIXED, COVER that is a key of features, as a set:
\* empty when none is.
FirstPresentKeyword(features) ==
    { placement_keywords[k] : k \in
        { j \in 1..Len(placement_keywords) :
            /\ placement_keywords[j] \in DOMAIN features
            /\ \A h \in 1..(j - 1) : placement_keywords[h] \notin DOMAIN features } }

\* The placement as the record holds it.
PlacementTuple(p) == <<p.x, p.y, p.orientation>>

\* C16: placementInfo is taken from the first key among PLACED, FIXED,
\* COVER that is present in features; when that key's value gives no
\* placement the record has no placementInfo, whatever the keys after it.
C16_FirstPresentKeyWins ==
    (ComponentReturned /\ Len(seperate_components) >= 3) =>
        \A keyword \in FirstPresentKeyword(format_result.value.features) :
            LET p == PlacementOf(format_result.value.features[keyword]) IN
            IF p.found
            THEN /\ "placementInfo" \in DOMAIN format_result.value
                 /\ format_result.value.placementInfo = PlacementTuple(p)
            ELSE "placementInfo" \notin DOMAIN format_result.value

\* The whitespace-separated parts of the group a feature value begins with:
\* of the value itself when it is a str, of its first item when it is a
\* tuple of two or more; none when the value does not begin with "(".
GroupParts(v) ==
    IF v.items = <<>> \/ (v.kind = "tuple" /\ Len(v.items) < 2) THEN <<>>
    ELSE IF ~StartsWith(v.items[1], <<"(">>) THEN <<>>
    ELSE Split(StripChars(v.items[1], ParenStrip))

\* The orientation a feature value carries: its second item when it is a
\* tuple, "N" when it is a str.
OrientationOf(v) == IF v.kind = "tuple" THEN v.items[2] ELSE S_N

BothIntegers(parts) == IntParse(parts[1]).ok /\ IntParse(parts[2]).ok

\* C17: when the coordinates of the placement feature are not integer
\* literals the record is returned with its names and features and its
\* placementInfo holds the two raw coordinate strings and the orientation,
\* for a Multi value (group and orientation) and for a Scalar group alike.
C17_RawCoordinatesKept ==
    (ComponentReturned /\ Len(seperate_components) >= 3) =>
        \A keyword \in FirstPresentKeyword(format_result.value.features) :
            LET v == format_result.value.features[keyword]
                parts == GroupParts(v)
            IN  (Len(parts) >= 2 /\ ~BothIntegers(parts)) =>
                    /\ format_result.value.ins_name = Tok(seperate_components, 1)
                    /\ format_result.value.cell_name = Tok(seperate_components, 2)
                    /\ "placementInfo" \in DOMAIN format_result.value
                    /\ format_result.value.placementInfo =
                           <<StrCoord(parts[1]), StrCoord(parts[2]), OrientationOf(v)>>

\* What holds of C17's case for a Multi value: the raw strings are kept.
MultiRawCoordinatesKept ==
    (ComponentReturned /\ Len(seperate_components) >= 3) =>
        \A keyword \in FirstPresentKeyword(format_result.value.features) :
            LET v == format_result.value.features[keyword]
                parts == GroupParts(v)
            IN  (v.kind = "tuple" /\ Len(parts) >= 2 /\ ~BothIntegers(parts)) =>
                    /\ "placementInfo" \in DOMAIN format_result.value
                    /\ format_result.value.placementInfo =
                           <<StrCoord(parts[1]), StrCoord(parts[2]), OrientationOf(v)>>

C18_WitnessNoGroup ==
    /\ ComponentReturned
    /\ Len(seperate_components) = 5
    /\ Tok(seperate_components, 3) = T_PLACED
    /\ Tok(seperate_components, 4) = T_ONE
    /\ "placementInfo" \notin DOMAIN format_result.value

-----------------------------------------------------------------------------
(* Properties of EnhancedNetHeadFormatter.format (lines 283-341).           *)

EnhancedNetReturned == fmt_pc = "done" /\ formatter = "EnhancedNetHeadFormatter"

IsPlusAt(k) == IsPlusToken(Tok(seperate_components, k))

\* The position of the first "+ NAME" token at index 2 or later, or the
\* number of tokens when there is none.
FirstPlus ==
    LET ps == { k \in 2..(Len(seperate_components) - 1) : IsPlusAt(k) } IN
    IF ps = {} THEN Len(seperate_components)
    ELSE CHOOSE k \in ps : \A m \in ps : k <= m

\* A connection group: "(", an instance, a pin (line 306 asks for two parts
\* or more and reads the first two), ")".
IsConnectionGroup(t) ==
    /\ StartsWith(t, <<"(">>)
    /\ EndsWith(t, <<")">>)
    /\ Len(Split(StripChars(t, ParenStrip))) >= 2

GroupConnection(t) ==
    [ins_name |-> Split(StripChars(t, ParenStrip))[1],
     pin_name |-> Split(StripChars(t, ParenStrip))[2]]

\* C19: the connections of a net entry are those of the well-formed groups
\* that stand before its first "+ NAME" token, one each and in token order;
\* no token after a "+ NAME" token adds a connection, a well-formed group
\* included.
C19_ConnectionsEndAtFirstPlus ==
    (EnhancedNetReturned /\ Len(seperate_components) >= 2) =>
        LET before == SubSeq(seperate_components, 3, FirstPlus)
            groups == SelectSeq(before, IsConnectionGroup)
        IN  /\ ~format_result.raised
            /\ Len(format_result.value.connections) = Len(groups)
            /\ \A j \in 1..Len(groups) :
                  format_result.value.connections[j] = GroupConnection(groups[j])

\* The formatter returned one connection for an entry with a well-formed
\* group before its "+ NAME" token and another after it.
C19_Witness ==
    /\ EnhancedNetReturned
    /\ Len(seperate_components) >= 5
    /\ Tok(seperate_components, 2) = T_XY
    /\ IsPlusAt(3)
    /\ Tok(seperate_components, 4) = T_XY
    /\ Len(format_result.value.connections) = 1

\* The positions of the "+ NAME" tokens at index 2 or later, in token order.
PlusPositions ==
    SelectSeq([j \in 1..(Len(seperate_components) - 2) |-> j + 1], IsPlusAt)

\* A parenthesized group: a token from "(" to ")".
IsParenGroup(t) == StartsWith(t, <<"(">>) /\ EndsWith(t, <<")">>)

\* The token after position k is a value as the specification words it:
\* neither a "+ " token nor a parenthesized group.
NextIsPlainToken(k) ==
    /\ k + 1 < Len(seperate_components)
    /\ ~IsPlusToken(Tok(seperate_components, k + 1))
    /\ ~IsParenGroup(Tok(seperate_components, k + 1))

\* The token after position k is a value as line 317 tests it: it begins
\* with neither "+" nor "(".
NextIsValueToken(k) ==
    /\ k + 1 < Len(seperate_components)
    /\ ~StartsWith(Tok(seperate_components, k + 1), <<"+">>)
    /\ ~StartsWith(Tok(seperate_components, k + 1), <<"(">>)

\* properties holds one entry per "+ NAME" token, in token order, with the
\* following token as value exactly when HasValue says so for each position.
PropertiesFollow(HasValue) ==
    /\ ~format_result.raised
    /\ Len(format_result.value.properties) = Len(PlusPositions)
    /\ \A j \in 1..Len(PlusPositions) :
          LET k == PlusPositions[j]
              p == format_result.value.properties[j]
          IN  /\ p.name = AfterPlus(Tok(seperate_components, k))
              /\ p.has_value = HasValue[k]
              /\ p.has_value => p.value = Tok(seperate_components, k + 1)

\* C20 as stated: each "+ NAME" token yields one property entry, in token
\* order, whose value is the next token when that token is neither a "+ "
\* token nor a parenthesized group, and is absent otherwise.
C20_ValueIsNextPlainToken ==
    (EnhancedNetReturned /\ Len(seperate_components) >= 2) =>
        PropertiesFollow([k \in 0..Len(seperate_components) |-> NextIsPlainToken(k)])

\* C20: each "+ NAME" token yields one property entry, in token order, whose
\* value is the next token when that token begins with neither "+" nor "(",
\* and is absent otherwise; a value token yields no entry of its own.
C20_ValueIsNextTokenNotPlusOrParen ==
    (EnhancedNetReturned /\ Len(seperate_components) >= 2) =>
        PropertiesFollow([k \in 0..Len(seperate_components) |-> NextIsValueToken(k)])

\* The formatter returned two properties, the first with its value and the
\* second, followed by a bare "+", without one.
C20_Witness ==
    /\ EnhancedNetReturned
    /\ Len(seperate_components) = 6
    /\ IsPlusAt(2)
    /\ Tok(seperate_components, 3) = S_N
    /\ IsPlusAt(4)
    /\ Tok(seperate_components, 5) = T_PLUS
    /\ Len(format_result.value.properties) = 2
    /\ format_result.value.properties[1].has_value
    /\ format_result.value.properties[1].value = S_N
    /\ ~format_result.value.properties[2].has_value

-----------------------------------------------------------------------------
(* Properties of NetHeadFormatter.format (lines 252-274).                   *)

NetReturned == fmt_pc = "done" /\ formatter = "NetHeadFormatter"

\* C21: the connections of the simple net formatter are those of the
\* well-formed groups among the tokens after the net name, one each and in
\* token order; a "+ NAME" token and its value add none.
C21_OnlyGroupsConnect ==
    (NetReturned /\ Len(seperate_components) >= 2) =>
        LET after  == SubSeq(seperate_components, 3, Len(seperate_components))
            groups == SelectSeq(after, IsConnectionGroup)
        IN  /\ ~format_result.raised
            /\ Len(format_result.value.connections) = Len(groups)
            /\ \A j \in 1..Len(groups) :
                  format_result.value.connections[j] = GroupConnection(groups[j])

\* The words of a group's content: the token without its opening and
\* closing parenthesis, split at whitespace.
GroupWords(t) == Split(SubSeq(t, 2, Len(t) - 1))

\* What one token before the first property adds to connections: a group of
\* two words or more adds the pair of its first two words, anything else
\* adds nothing.
PairOf(t) ==
    IF IsParenGroup(t) /\ Len(GroupWords(t)) >= 2
    THEN <<[ins_name |-> GroupWords(t)[1], pin_name |-> GroupWords(t)[2]]>>
    ELSE <<>>

RECURSIVE PairsOf(_)
PairsOf(toks) ==
    IF toks = <<>> THEN <<>> ELSE PairOf(Head(toks)) \o PairsOf(Tail(toks))

-----------------------------------------------------------------------------
(* Properties of the scan loop of DefParser.parse (lines 59-85) on repeated *)
(* keywords.                                                                *)

S_ROW == <<"R", "O", "W">>

\* The first word of a line, or nothing for a line without a word: the
\* prefix of line 64.
PrefixOf(ln) == LET words == Split(ln) IN IF words = <<>> THEN <<>> ELSE words[1]

\* C23: after parse, block_collector holds under each keyword of a block
\* without end marker the results of all the lines of the file that the
\* keyword prefixes, one per line and in file order; a keyword that prefixes
\* no line has no entry.
C23_NoEndResultsAccumulate ==
    parse_pc = "done" =>
        LET f == FileLines(def_file)
            prefixes == [i \in 1..Len(f) |-> PrefixOf(f[i])]
        IN  \A kw \in NoEndBlockList :
                LET at == SelectSeq([i \in 1..Len(f) |-> i], LAMBDA i : prefixes[i] = kw) IN
                IF at = <<>> THEN kw \notin DOMAIN block_collector
                ELSE /\ kw \in DOMAIN block_collector
                     /\ Len(block_collector[kw]) = Len(at)
                     /\ \A j \in 1..Len(at) :
                           block_collector[kw][j] =
                               BlockParserNoEndParse(f, at[j], f[at[j]], kw).result

\* parse returned for a file of three ROW statements, not all the same: the
\* three results are held in file order.
C23_Witness ==
    /\ parse_pc = "done"
    /\ def_file = << <<L_ROW_2>>, <<L_ROW>>, <<L_ROW_2>> >>
    /\ block_collector[S_ROW] = <<L_ROW_2, L_ROW, L_ROW_2>>

\* The index in the file of the last line that keyword prefixes, or 0.
LastLineWithPrefix(keyword, f) ==
    LET at == { i \in 1..Len(f) : PrefixOf(f[i]) = keyword } IN
    IF at = {} THEN 0 ELSE CHOOSE i \in at : \A j \in at : j <= i

\* The last item of the file that begins with keyword, as a file of its own;
\* the empty file when there is none.
LastItemWithPrefix(keyword) ==
    LET at == { i \in 1..Len(def_file) : PrefixOf(def_file[i][1]) = keyword } IN
    IF at = {} THEN <<>> ELSE def_file[CHOOSE i \in at : \A j \in at : j <= i]

\* C24: after parse, block_collector holds under each header keyword and each
\* keyword of a block with end marker that prefixes a line of the file the
\* result of its last occurrence alone, and the component and net records
\* returned are those of the last COMPONENTS and of the last NETS block.
C24_LastOccurrenceKept ==
    parse_pc = "done" =>
        LET f == FileLines(def_file) IN
        /\ \A kw \in Header_list \cap DOMAIN block_collector :
              LET i == LastLineWithPrefix(kw, f) IN
              i > 0 /\ block_collector[kw] = HeaderParserParse(f, i, f[i], kw).result
        /\ \A kw \in {S_COMPONENTS, S_NETS} \cap DOMAIN block_collector :
              LET i == LastLineWithPrefix(kw, f) IN
              i > 0 /\ block_collector[kw] = MultiLineBlockParserParse(f, i, f[i], kw).result
        /\ \A kw \in {S_UNITS, S_COMPONENTS, S_NETS} :
              LastLineWithPrefix(kw, f) > 0 => kw \in DOMAIN block_collector
        /\ parse_result.components =
              Parse(LastItemWithPrefix(S_COMPONENTS), used_prefix).components
        /\ parse_result.nets = Parse(LastItemWithPrefix(S_NETS), used_prefix).nets

\* parse returned for a file of two different COMPONENTS blocks, the
\* two-entry block first: the one record of the second block is returned.
C24_Witness ==
    /\ parse_pc = "done"
    /\ Len(def_file) >= 2
    /\ def_file[1] = B_COMPONENTS_2
    /\ def_file[Len(def_file)] = B_COMPONENTS_1
    /\ IsUsed(S_COMPONENTS)
    /\ Len(block_collector[S_COMPONENTS]) = 1
    /\ Len(parse_result.components) = 1
    /\ parse_result.components[1].ins_name = <<"U", "1">>
    /\ "placementInfo" \in DOMAIN parse_result.components[1]

\* parse returned for a file of two different UNITS statements: the second
\* is the one held.
C24_WitnessHeader ==
    /\ parse_pc = "done"
    /\ def_file = << <<L_UNITS>>, <<L_UNITS_2>> >>
    /\ block_collector[S_UNITS] = <<L_UNITS_2>>

-----------------------------------------------------------------------------
(* Progress and content of the tokenizer (specific.py 54-128).             *)

\* What is left of the scan: the steps of the loop are at most as many as
\* the positions from sep_i to one past the end of the line.
SepRank ==
    IF sep_pc = "call" THEN Len(sep_line) + 4
    ELSE IF sep_pc = "loop" THEN Len(sep_line) + 2 - sep_i
    ELSE 0

\* C25: seperate terminates on every line: each iteration of the outer loop
\* strictly increases the scan position, which never passes len(line) + 1;
\* every step of the scan lowers what is left of it, and a scan that has not
\* returned can take a step.
C25_ScanPositionIncreases ==
    /\ [][(sep_pc = "loop" /\ sep_pc' = "loop") => sep_i' > sep_i]_vars
    /\ [](sep_i <= Len(sep_line) + 1)
    /\ [](SepRank >= 0)
    /\ [][SepRank' < SepRank]_vars
    /\ [](sep_pc # "return" => ENABLED SepNext)

\* seperate returned on a quote followed by a backslash, the last character
\* of the line: the scan position went one past the end of the line.
C25_Witness ==
    /\ sep_pc = "return"
    /\ sep_line = <<"a", " ", "\"", "\\">>
    /\ sep_i = Len(sep_line) + 1
    /\ tokens = << <<"a">>, <<"\"", "\\">> >>

\* seperate returned on a lone "+" and on an unbalanced "(".
C25_WitnessLonePlus ==
    /\ sep_pc = "return"
    /\ sep_line = <<"a", " ", "+">>
    /\ tokens = << <<"a">>, <<"+">> >>

C25_WitnessOpenParen ==
    /\ sep_pc = "return"
    /\ sep_line = <<"(", "a", " ", "(", "a">>
    /\ tokens = << sep_line >>

\* The first position after p that holds no whitespace, or len(line).
WordStartAfter(p) ==
    LET at == { w \in (p + 1)..(Len(sep_line) - 1) : ~IsSpace(Ch(sep_line, w)) } IN
    IF at = {} THEN Len(sep_line) ELSE CHOOSE w \in at : \A m \in at : w <= m

\* The first position from w on that holds whitespace or a quote, or
\* len(line): the end of the run that starts at w.
RunEndFrom(w) ==
    LET at == { e \in w..(Len(sep_line) - 1) :
                  IsSpace(Ch(sep_line, e)) \/ Ch(sep_line, e) = "\"" } IN
    IF at = {} THEN Len(sep_line) ELSE CHOOSE e \in at : \A m \in at : e <= m

\* The scan started token k at a "+" that a run follows, after whitespace
\* or none.
PlusWithRunAt(k) ==
    /\ Ch(sep_line, token_starts[k]) = "+"
    /\ WordStartAfter(token_starts[k]) < Len(sep_line)
    /\ Ch(sep_line, WordStartAfter(token_starts[k])) # "\""

\* C26: a "+" the scan reaches, followed after any whitespace or none by a
\* run of characters that are neither whitespace nor a quote, is emitted
\* with the run as the one token "+ " and the run: the run reaches to the
\* first whitespace or quote, a "(" in it does not end it, and the next
\* token starts at or after the end of the run.
C26_PlusAndRunOneToken ==
    \A k \in 1..Len(tokens) :
        PlusWithRunAt(k) =>
            LET w == WordStartAfter(token_starts[k])
                e == RunEndFrom(w)
            IN  /\ tokens[k] = <<"+", " ">> \o Slice(sep_line, w, e)
                /\ k < Len(tokens) => token_starts[k + 1] >= e
                /\ (k = Len(tokens) /\ sep_pc = "return") => sep_i >= e

\* seperate returned on '+a("a': the run "a(" follows the "+" at once, holds
\* a "(" and ends at the quote.
C26_Witness ==
    /\ sep_pc = "return"
    /\ sep_line = <<"+", "a", "(", "\"", "a">>
    /\ tokens = << <<"+", " ", "a", "(">>, <<"\"", "a">> >>

\* seperate returned on '+  (a': whitespace between the "+" and the run.
C26_WitnessGap ==
    /\ sep_pc = "return"
    /\ sep_line = <<"+", " ", " ", "(", "a">>
    /\ tokens = << <<"+", " ", "(", "a">> >>

\* The number of backslashes that stand in a row right before position m,
\* none of them at or before p.
BackslashesBefore(p, m) ==
    Cardinality({ b \in (p + 1)..(m - 1) :
                    \A x \in b..(m - 1) : Ch(sep_line, x) = "\\" })

\* The quotes after p that no backslash escapes: an even number of
\* backslashes in a row stands before them.
ClosingQuotes(p) ==
    { c \in (p + 1)..(Len(sep_line) - 1) :
        Ch(sep_line, c) = "\"" /\ BackslashesBefore(p, c) % 2 = 0 }

\* The literal that opens at the quote at p: up to the next unescaped quote,
\* that quote included, or up to the end of the line.
LiteralEnd(p) ==
    IF ClosingQuotes(p) = {} THEN Len(sep_line)
    ELSE (CHOOSE c \in ClosingQuotes(p) : \A m \in ClosingQuotes(p) : c <= m) + 1

LiteralText(p) == Slice(sep_line, p, LiteralEnd(p))

\* C27 as stated, for the first quote of the line, which no literal holds:
\* it starts a token, and the token is the literal that opens there.
C27_FirstQuoteStartsLiteral ==
    sep_pc = "return" =>
        LET at == { q \in 0..(Len(sep_line) - 1) : Ch(sep_line, q) = "\"" } IN
        at # {} =>
            LET q == CHOOSE q \in at : \A m \in at : q <= m IN
            \E k \in 1..Len(tokens) :
                token_starts[k] = q /\ tokens[k] = LiteralText(q)

\* C27: a quote at which the scan starts a token starts a quoted literal:
\* the token runs to the next unescaped quote, that quote included, whatever
\* whitespace, "+" or parentheses it holds, or to the end of the line when
\* no unescaped quote follows; the next token starts after it.
C27_QuoteAtTokenStartIsLiteral ==
    \A k \in 1..Len(tokens) :
        Ch(sep_line, token_starts[k]) = "\"" =>
            /\ tokens[k] = LiteralText(token_starts[k])
            /\ k < Len(tokens) => token_starts[k + 1] >= LiteralEnd(token_starts[k])

\* seperate returned on '"\"+"a': the escaped quote and the "+" are part of
\* the literal, which the third quote closes.
C27_Witness ==
    /\ sep_pc = "return"
    /\ sep_line = <<"\"", "\\", "\"", "+", "\"">>
    /\ tokens = << sep_line >>

\* seperate returned on '"( +"': whitespace, "(" and "+" inside the literal.
C27_WitnessInside ==
    /\ sep_pc = "return"
    /\ sep_line = <<"\"", "(", " ", "+", "\"">>
    /\ tokens = << sep_line >>

\* A text without its whitespace characters.
NotSpace(c) == ~IsSpace(c)

WithoutSpace(s) == SelectSeq(s, NotSpace)

\* The tokens written one after the other.
RECURSIVE Concat(_)
Concat(toks) == IF toks = <<>> THEN <<>> ELSE Head(toks) \o Concat(Tail(toks))

\* C28: seperate loses and invents no character: at every step of the scan
\* the tokens emitted so far, written one after the other and without
\* whitespace, are the part of the line read so far without whitespace, so
\* that what is returned is the whole line without whitespace; and no token
\* is empty.
C28_NoCharacterLostOrInvented ==
    sep_pc \in {"loop", "return"} =>
        /\ WithoutSpace(Concat(tokens)) = WithoutSpace(Slice(sep_line, 0, sep_i))
        /\ sep_pc = "return" => WithoutSpace(Concat(tokens)) = WithoutSpace(sep_line)
        /\ \A k \in 1..Len(tokens) : tokens[k] # <<>>

\* seperate returned three tokens for '+a "(': a "+ NAME" token with the
\* blank rule 1 puts in, and a literal.
C28_Witness ==
    /\ sep_pc = "return"
    /\ sep_line = <<"+", "a", " ", "\"", "(">>
    /\ tokens = << <<"+", " ", "a">>, <<"\"", "(">> >>
    /\ Concat(tokens) # sep_line

-----------------------------------------------------------------------------
(* What the pruning of parse_def.py (lines 326-334) leaves alone.          *)

\* net2id holds every net name of the input, under the index of a record
\* with that name.
NetToIdCoversInput ==
    /\ DOMAIN net2id = { nets[i].net_name : i \in 1..Len(nets) }
    /\ \A name \in DOMAIN net2id :
          /\ net2id[name] \in 0..(Len(nets) - 1)
          /\ nets[net2id[name] + 1].net_name = name

\* The keys of id2net_info are enumeration indices of the input and each
\* entry is the one built for the record at its index.
IdsAreEnumerationIndices ==
    \A k \in DOMAIN id2net_info :
        /\ k \in 0..(Len(nets) - 1)
        /\ id2net_info[k].net_name = nets[k + 1].net_name
        /\ id2net_info[k].connections = FilterPIN(nets[k + 1].connections)

\* C29: pruning changes only id2net_info, and that by deleting entries: from
\* the start of the prune loop on, net2id holds every net name of the input,
\* pruned or not, a step of the loop changes neither net2id nor an entry
\* that stays, and the entries that stay are under their original
\* enumeration indices.
C29_PruneLeavesNetToId ==
    /\ [](main_pc \in {"prune", "done"} /\ nets # <<>> => NetToIdCoversInput)
    /\ []IdsAreEnumerationIndices
    /\ [][main_pc = "prune" =>
            /\ net2id' = net2id
            /\ nets' = nets
            /\ DOMAIN id2net_info' \subseteq DOMAIN id2net_info
            /\ \A k \in DOMAIN id2net_info' : id2net_info'[k] = id2net_info[k]]_vars

\* The assembly finished with a net pruned that stands before a net kept:
\* net2id maps the pruned net's name to an id that is no key of id2net_info,
\* and the net kept is under its index 1, not 0.
C29_Witness ==
    /\ main_pc = "done"
    /\ Len(nets) = 2
    /\ nets[1].net_name = "n1"
    /\ nets[2].net_name = "n2"
    /\ net2id["n1"] = 0
    /\ DOMAIN id2net_info = {1}
    /\ net2id["n2"] = 1

-----------------------------------------------------------------------------
(* The features of ComponentHeadFormatter.format (lines 163-187).          *)

\* The feature token at position k is the last one with its NAME.
LastOfItsName(toks, k) ==
    \A m \in FeaturePositions(toks) : Tok(toks, m) = Tok(toks, k) => m <= k

\* C30: the features of a component record are those of its "+ NAME" tokens
\* at index 3 or later and of nothing else: each NAME holds the tokens that
\* follow its last "+ NAME" token up to the next "+ " token or the end, the
\* empty sequence when none does, whatever an earlier token with the same
\* NAME was followed by; the tokens before the first "+ " token are the
\* value of no feature, and without a "+ " token there is no feature.
C30_FeaturesOfLastOccurrence ==
    (ComponentReturned /\ Len(seperate_components) >= 3) =>
        LET toks == seperate_components
            features == format_result.value.features
        IN  /\ DOMAIN features = { AfterPlus(Tok(toks, k)) : k \in FeaturePositions(toks) }
            /\ \A k \in FeaturePositions(toks) :
                  LastOfItsName(toks, k) =>
                      /\ features[AfterPlus(Tok(toks, k))].items = ValuesAfter(toks, k)
                      /\ ValuesAfter(toks, k) = <<>> =>
                            features[AfterPlus(Tok(toks, k))].kind = "tuple"

\* The formatter returned for "-", "U1", "N", "N", "+ FIXED", "N", "+ FIXED":
\* the one feature is empty, the second "+ FIXED" having replaced the value
\* of the first, and the token before the first "+ FIXED" is in no feature.
C30_Witness ==
    /\ ComponentReturned
    /\ seperate_components = <<T_DASH, T_U1, S_N, S_N, T_FIXED, S_N, T_FIXED>>
    /\ DOMAIN format_result.value.features = {S_FIXED}
    /\ format_result.value.features[S_FIXED] = [kind |-> "tuple", items |-> <<>>]

====
